---- MODULE Spec2Model ----
(***************************************************************************)
(* Model of the yatisql import pipeline: the delimited reader, the batch   *)
(* writer (CreateTable / InsertBatch), the streaming per-file importer     *)
(* (importFileStreaming) and the orchestrator (ImportConcurrent), together *)
(* with the parse-then-write path (ParseFile / WriteToDatabase / Import).  *)
(***************************************************************************)
EXTENDS Integers, Sequences, FiniteSets, TLC

\* ------------------------------------------------------------------ bounds
\* database.BatchSize is 10000 in the source; the model runs the same code
\* with a small capacity so that full, partial and empty batches all occur.
BatchSize == 2
\* largest number of records (header line included) in one file: enough for
\* a full batch followed by a further record
MaxRecords == BatchSize + 2

\* one goroutine per FileInput; a call is given at most two inputs
Workers == {1, 2}
Paths == {"p1", "p2"}
TableNames == {"t1", "t2"}

Nil == "nil"
EOF == "EOF"

\* ------------------------------------------------------------- characters
LowerCase == {"a","b","c","d","e","f","g","h","i","j","k","l","m",
              "n","o","p","q","r","s","t","u","v","w","x","y","z"}
UpperCase == {"A","B","C","D","E","F","G","H","I","J","K","L","M",
              "N","O","P","Q","R","S","T","U","V","W","X","Y","Z"}
Digits == {"0","1","2","3","4","5","6","7","8","9"}
WhiteSpace == {" ", "\t", "\n", "\r"}

\* A string is modelled as a sequence of one-character strings.

\* strings.ToLower; SQLite compares identifiers without regard to case
LowerOf(c) ==
    CASE c = "A" -> "a" [] c = "B" -> "b" [] c = "C" -> "c" [] c = "D" -> "d"
      [] c = "E" -> "e" [] c = "F" -> "f" [] c = "G" -> "g" [] c = "H" -> "h"
      [] c = "I" -> "i" [] c = "J" -> "j" [] c = "K" -> "k" [] c = "L" -> "l"
      [] c = "M" -> "m" [] c = "N" -> "n" [] c = "O" -> "o" [] c = "P" -> "p"
      [] c = "Q" -> "q" [] c = "R" -> "r" [] c = "S" -> "s" [] c = "T" -> "t"
      [] c = "U" -> "u" [] c = "V" -> "v" [] c = "W" -> "w" [] c = "X" -> "x"
      [] c = "Y" -> "y" [] c = "Z" -> "z" [] OTHER -> c
ToLower(s) == [i \in 1..Len(s) |-> LowerOf(s[i])]

RECURSIVE TrimLeft(_)
TrimLeft(s) ==
    IF s # <<>> /\ Head(s) \in WhiteSpace THEN TrimLeft(Tail(s)) ELSE s

RECURSIVE TrimRight(_)
TrimRight(s) ==
    IF s # <<>> /\ s[Len(s)] \in WhiteSpace
    THEN TrimRight(SubSeq(s, 1, Len(s) - 1)) ELSE s

\* a trim of the leading whitespace only
TrimSpaceLeading(s) == TrimLeft(s)
\* strings.TrimSpace
TrimSpace(s) == TrimRight(TrimLeft(s))

\* a sanitizer that prefixes every name
SanitizeAlwaysPrefixed(name) ==
    LET trimmed == TrimSpace(name) IN
    <<"c","o","l","_">> \o
      [i \in 1..Len(trimmed) |->
         IF trimmed[i] \in LowerCase \cup UpperCase \cup Digits \cup {"_"}
         THEN trimmed[i] ELSE "_"]

SanitizeColumnName(name) ==
    LET trimmed == TrimSpace(name)
        result == [i \in 1..Len(trimmed) |->
                     IF trimmed[i] \in LowerCase \cup UpperCase \cup Digits \cup {"_"}
                     THEN trimmed[i] ELSE "_"]
    IN  IF trimmed = <<>> THEN <<"u","n","n","a","m","e","d">>
        ELSE IF result[1] \in Digits THEN <<"c","o","l","_">> \o result
        ELSE result

SanitizeAll(headers) == [i \in 1..Len(headers) |-> SanitizeColumnName(headers[i])]

\* fmt.Sprintf("col%d", i+1) for the synthesized header of a headerless file
DigitChar(i) == CASE i = 0 -> "0" [] i = 1 -> "1" [] i = 2 -> "2" [] i = 3 -> "3"
                  [] i = 4 -> "4" [] i = 5 -> "5" [] i = 6 -> "6" [] i = 7 -> "7"
                  [] i = 8 -> "8" [] OTHER -> "9"
SynthHeaders(width) == [i \in 1..width |-> <<"c","o","l", DigitChar(i)>>]

\* ------------------------------------------------------------------ files
PathChar(p) == IF p = "p1" THEN "a" ELSE "b"
PathOf(i) == IF i = 1 THEN "p1" ELSE "p2"

\* the i-th record of the file at path p: two fields
Rec(p, i) == << <<PathChar(p), " ", DigitChar(i)>>, <<DigitChar(i), PathChar(p)>> >>

\* a file of n records whose b-th record cannot be tokenized (b = 0: none)
MkFile(p, n, b) ==
    [exists |-> TRUE,
     recs |-> [i \in 1..n |-> [bad |-> (i = b), fields |-> Rec(p, i)]]]
Missing == [exists |-> FALSE, recs |-> <<>>]

FileContents(p) ==
    {Missing} \cup {MkFile(p, n, 0) : n \in 0..MaxRecords}
              \cup {MkFile(p, n, n) : n \in 1..MaxRecords}

\* csv.Reader.Read with FieldsPerRecord = 0: the first record fixes the
\* field count, a later record of another width is an error.
ReaderRead(recs, pos) ==
    IF pos >= Len(recs) THEN [rec |-> <<>>, err |-> EOF]
    ELSE IF recs[pos + 1].bad THEN [rec |-> <<>>, err |-> "parse error"]
    ELSE IF pos > 0 /\ Len(recs[pos + 1].fields) # Len(recs[1].fields)
         THEN [rec |-> recs[pos + 1].fields, err |-> "wrong number of fields"]
    ELSE [rec |-> recs[pos + 1].fields, err |-> Nil]

\* ------------------------------------------------------------------- sink
NoTable == [exists |-> FALSE, cols |-> <<>>, rows |-> <<>>]
\* a table left by an earlier run of a two-column headerless import
OldTable == [exists |-> TRUE, cols |-> SanitizeAll(SynthHeaders(2)),
             rows |-> << << <<"o">>, <<"o">> >> >>]
\* SQL NULL, kept apart from every string of characters
Null == <<"NULL">>

\* a value vector that leaves the missing trailing fields NULL
PadRowNull(hdrs, row) ==
    [i \in 1..Len(hdrs) |-> IF i <= Len(row) THEN row[i] ELSE <<"NULL">>]
\* InsertBatch's value vector for one row: header width, short rows padded
PadRow(hdrs, row) ==
    [i \in 1..Len(hdrs) |-> IF i <= Len(row) THEN row[i] ELSE <<>>]

\* no two names of s are the same identifier
NoDuplicates(s) == \A i, j \in 1..Len(s) : ToLower(s[i]) = ToLower(s[j]) => i = j
Range(s) == {s[i] : i \in 1..Len(s)}

\* stored row for INSERT INTO t (names) VALUES (values): by column name,
\* columns of the table that the statement does not name stay NULL
RowFor(cols, names, values) ==
    [k \in 1..Len(cols) |->
        IF \E i \in 1..Len(names) : names[i] = cols[k]
        THEN values[CHOOSE i \in 1..Len(names) : names[i] = cols[k]]
        ELSE Null]

VARIABLES
    mode,         \* entry point: "streaming", "staged" or "import"
    inputs,       \* the []FileInput given to the entry point
    fs,           \* file system: path -> content or Missing
    tables,       \* sink: committed tables, name -> NoTable or [cols, rows]
    writer,       \* sink: worker holding the database write lock, 0 if none
    txOpen,       \* per worker: an InsertBatch transaction is begun
    txPending,    \* per worker: rows executed in the open transaction
    mainpc,       \* position of the calling goroutine
    pc,           \* per worker: position in the code
    pos,          \* per worker: records consumed from the csv reader
    headers,      \* per worker: headers
    batch,        \* per worker: batch
    rowCount,     \* per worker: rowCount
    rowsWritten,  \* per worker: rowsWritten
    parsed,       \* per worker: the ParsedFile (Rows, Error)
    ibIdx,        \* per worker: InsertBatch's loop index over the batch
    ibErr,        \* per worker: InsertBatch's return value
    ibFrom,       \* per worker: call site of the running InsertBatch
    ret,          \* per worker: return value of the per-file import
    resultsMu,    \* holder of resultsMu, 0 if free
    results,      \* results
    errs,         \* errs
    retval,       \* return value of the entry point
    ctDone,       \* per worker (history): its CreateTable has completed
    txLog,        \* per worker (history): the batch of every transaction begun
    events        \* per input: the calls made on the progress callbacks

importVars == <<mode, inputs, fs, tables, writer, txOpen, txPending, mainpc, pc,
                pos, headers, batch, rowCount, rowsWritten, parsed, ibIdx, ibErr,
                ibFrom, ret, resultsMu, results, errs, retval, ctDone, txLog,
                events>>

\* callers of SanitizeColumnName
VARIABLES
    sanName,      \* the raw column name the caller holds
    sanLog        \* (history) the calls made so far: argument and return value

sanVars == <<sanName, sanLog>>

\* a caller of the database package: CreateTable, InsertBatch,
\* ValidateColumns, CreateIndex, CreateIndexes on one table
VARIABLES
    dbHeaders,    \* the headers the caller holds
    dbTable,      \* sink: the table, NoTable or [cols, rows]
    dbIndexes,    \* sink: the indexes of the database, [name, table, column]
    dbPc,         \* position of the caller: "idle" or inside CreateIndexes
    dbCall,       \* the call that is running or has returned last
    dbI,          \* CreateIndexes' loop index
    dbRet,        \* return value of the last call
    dbPre,        \* (history) the sink when the last call started
    dbAgain,      \* (history) the last call repeats the successful call before it
    dbCalls       \* (history) number of calls made

dbVars == <<dbHeaders, dbTable, dbIndexes, dbPc, dbCall, dbI, dbRet, dbPre,
            dbAgain, dbCalls>>

\* the CLI's run: ImportConcurrent with the three progress callbacks, the
\* ProgressTracker and its render loop
VARIABLES
    cliMode,      \* "plain": no progress bars; "bars": tracker enabled;
                  \* "disabled": progress wanted but an input is stdin
    cliFiles,     \* the inputs (one goroutine each)
    wpc,          \* position of each import goroutine
    wev,          \* the event or progress update the goroutine is reporting
    werr,         \* importFileStreaming's err != nil
    wn,           \* rows reported so far by the goroutine
    cliResultsMu, \* holder of ImportConcurrent's resultsMu, 0 if free
    mu,           \* holder of the progress callback's mu, 0 if free
    ptMu,         \* holder of the tracker's pt.mu, 0 if free
    bars,         \* pt.bars
    started,      \* pt.started
    stopCh,       \* pt.stopCh is closed
    doneCh,       \* pt.doneCh is closed
    rpc,          \* position of the render loop goroutine
    mpc           \* position of run's goroutine

cliVars == <<cliMode, cliFiles, wpc, wev, werr, wn, cliResultsMu, mu, ptMu,
             bars, started, stopCh, doneCh, rpc, mpc>>

\* one execution of the CLI's run: configuration, database file, queries
VARIABLES
    runCfg,       \* the Config: input files, queries, output files, DBPath
    runPc,        \* position of run
    runErr,       \* the error run returns, Nil if none
    runFiles,     \* which database files exist: the temporary one, the user's
    runDb,        \* the *database.DB that Open returned
    runDid,       \* what run has done so far: Open, the imports, queries
    removeFailed, \* an os.Remove of the temporary database file failed
    qpc,          \* per query: not started, running, ok or failed
    qStarted,     \* the queries in the order their Execute was called
    queryErrs     \* the errors collected by the concurrent query goroutines

runVars == <<runCfg, runPc, runErr, runFiles, runDb, runDid, removeFailed, qpc,
             qStarted, queryErrs>>

\* the variables of the other specifications of this module, which the
\* import pipeline leaves alone
otherVars == <<sanVars, dbVars, cliVars, runVars>>

vars == <<importVars, otherVars>>

\* no caller of SanitizeColumnName is running
SanQuiet == sanName = <<>> /\ sanLog = <<>>

NoCall == [op |-> "none", columns |-> <<>>, batch |-> <<>>]
NoErr == [kind |-> "nil", missing |-> <<>>]
\* no caller of the database package is running
DbQuiet ==
    /\ dbHeaders = <<>>
    /\ dbTable = NoTable
    /\ dbIndexes = {}
    /\ dbPc = "idle"
    /\ dbCall = NoCall
    /\ dbI = 0
    /\ dbRet = NoErr
    /\ dbPre = [table |-> NoTable, indexes |-> {}]
    /\ dbAgain = FALSE
    /\ dbCalls = 0

sinkVars == <<tables, writer, txOpen, txPending>>
envVars == <<mode, inputs, fs>>
aggVars == <<resultsMu, results, errs, retval, mainpc>>
ibVars == <<ibIdx, ibErr, ibFrom>>

N == Len(inputs)
Active == 1..N
\* a goroutine closure that captures the loop variable instead of taking
\* the FileInput as its argument: every worker sees the last input
InpCaptured(w) == inputs[Len(inputs)]
\* the FileInput passed to worker w: go func(inp FileInput) {...}(input)
Inp(w) == inputs[w]

OkRet(t, n) == [kind |-> "ok", TableName |-> t, RowCount |-> n, err |-> Nil]
\* an error return that also hands back a Result
ErrRetWithResult(msg) == [kind |-> "ok", TableName |-> Nil, RowCount |-> 0, err |-> msg]
ErrRet(msg) == [kind |-> "err", TableName |-> Nil, RowCount |-> 0, err |-> msg]
NoRet == [kind |-> "none", TableName |-> Nil, RowCount |-> 0, err |-> Nil]
\* a join that loses the collected errors
JoinErrorsDropped(es) == [isNil |-> TRUE, parts |-> <<>>]
\* a join that is never nil
JoinErrorsNeverNil(es) == [isNil |-> FALSE, parts |-> es]
\* errors.Join: nil when there is no error, else all of them
JoinErrors(es) == [isNil |-> es = <<>>, parts |-> es]
NoParsed == [Rows |-> <<>>, Error |-> Nil]

\* the CLI's run is not executing
CliQuiet ==
    /\ cliMode = "plain"
    /\ cliFiles = {}
    /\ wpc = [w \in Workers |-> "absent"]
    /\ wev = [w \in Workers |-> "none"]
    /\ werr = [w \in Workers |-> FALSE]
    /\ wn = [w \in Workers |-> 0]
    /\ cliResultsMu = 0 /\ mu = 0 /\ ptMu = 0
    /\ bars = <<>>
    /\ started = FALSE /\ stopCh = FALSE /\ doneCh = FALSE
    /\ rpc = "none"
    /\ mpc = "none"

\* longest list of queries and of output files
MaxQueries == 2
\* longest list of input files
MaxInputs == 2
NoDb == [open |-> FALSE, path |-> "none", ShouldCleanup |-> FALSE]
\* run is not executing
RunQuiet ==
    /\ runCfg = [inputs |-> <<>>, queries |-> 0, outputs |-> <<>>, DBPath |-> ""]
    /\ runPc = "none"
    /\ runErr = Nil
    /\ runFiles = [temp |-> FALSE, user |-> FALSE]
    /\ runDb = NoDb
    /\ runDid = {}
    /\ removeFailed = FALSE
    /\ qpc = [i \in 1..MaxQueries |-> "none"]
    /\ qStarted = <<>>
    /\ queryErrs = <<>>

\* ------------------------------------------------------------------- Init
InputSets(n) ==
    {inp \in [1..n -> [FilePath : Paths, TableName : TableNames, HasHeader : BOOLEAN]] :
        /\ \A i \in 1..n : inp[i].FilePath = PathOf(i)
        /\ n >= 1 => inp[1].TableName = "t1"}

Init ==
    /\ mode \in {"streaming", "staged", "import"}
    /\ \E n \in 0..Cardinality(Workers) :
         /\ mode = "import" => n = 1
         /\ inputs \in InputSets(n)
         /\ fs \in {f \in [Paths -> UNION {FileContents(p) : p \in Paths}] :
                      \A p \in Paths :
                         /\ f[p] \in FileContents(p)
                         /\ (\A i \in 1..n : PathOf(i) # p) => f[p] = Missing}
    /\ tables \in {[t \in TableNames |-> NoTable], [t \in TableNames |-> OldTable]}
    /\ writer = 0
    /\ txOpen = [w \in Workers |-> FALSE]
    /\ txPending = [w \in Workers |-> <<>>]
    /\ mainpc = "call"
    /\ pc = [w \in Workers |-> "idle"]
    /\ pos = [w \in Workers |-> 0]
    /\ headers = [w \in Workers |-> <<>>]
    /\ batch = [w \in Workers |-> <<>>]
    /\ rowCount = [w \in Workers |-> 0]
    /\ rowsWritten = [w \in Workers |-> 0]
    /\ parsed = [w \in Workers |-> NoParsed]
    /\ ibIdx = [w \in Workers |-> 0]
    /\ ibErr = [w \in Workers |-> Nil]
    /\ ibFrom = [w \in Workers |-> Nil]
    /\ ret = [w \in Workers |-> NoRet]
    /\ resultsMu = 0
    /\ results = <<>>
    /\ errs = <<>>
    /\ retval = [done |-> FALSE, results |-> <<>>, err |-> JoinErrors(<<>>)]
    /\ ctDone = [w \in Workers |-> FALSE]
    /\ txLog = [w \in Workers |-> <<>>]
    /\ events = [w \in Workers |-> <<>>]
    /\ SanQuiet
    /\ DbQuiet
    /\ CliQuiet
    /\ RunQuiet


\* -------------------------------------------------------- progress callbacks
\* parseProgressCallback is called every 1000 rows in the source; the model
\* runs the same code with a small interval that differs from BatchSize
ProgressInterval == 3

\* one call of progressCallback, parseProgressCallback or
\* writeProgressCallback for the input of worker w
Ev(e, n) == [event |-> e, rows |-> n]
\* every callback is called twice
ReportTwice(w, es) == events' = [events EXCEPT ![w] = @ \o es \o es]
\* the goroutine of input w calls the callbacks es, in order
Report(w, es) == events' = [events EXCEPT ![w] = @ \o es]
\* a parse progress report after every row
ParseProgressDueAlways(n) == TRUE
\* rowCount%1000 == 0
ParseProgressDue(n) == n % ProgressInterval = 0

\* --------------------------------------------------------- calling goroutine
\* a failure path that goes on to the table creation
FinishViaCreateTable == "ct_drop"
\* where a per-file import returns to: Import returns, ImportConcurrent's
\* goroutine goes on to record the outcome
FinishPc == IF mode = "import" THEN "done" ELSE "lock"
AfterCreatePc == IF mode = "streaming" THEN "s_read" ELSE "wtd_loop"
\* an importer that goes on to the rows without calling CreateTable
SkipCreateTablePc == AfterCreatePc
\* after the header is known the table is created, then the rows are written
CreateTablePc == "ct_drop"

\* ImportConcurrent / Import is entered: the empty list returns at once,
\* otherwise one goroutine per input is started.
Call ==
    /\ mainpc = "call"
    /\ IF N = 0
       THEN /\ mainpc' = "returned"
            /\ retval' = [done |-> TRUE, results |-> <<>>, err |-> JoinErrors(<<>>)]
            /\ UNCHANGED pc
       ELSE /\ mainpc' = IF mode = "staged" THEN "wait_parse" ELSE "wait"
            /\ pc' = [w \in Workers |->
                        IF w \in Active
                        THEN (IF mode = "streaming" THEN "s_open" ELSE "pf_open")
                        ELSE pc[w]]
            /\ UNCHANGED retval
    /\ UNCHANGED <<otherVars, envVars, ctDone, txLog, events, sinkVars, pos, headers, batch, rowCount, rowsWritten,
                   parsed, ibVars, ret, resultsMu, results, errs>>

\* ------------------------------------------------------ importFileStreaming
SOpen(w) ==
    /\ pc[w] = "s_open"
    /\ IF ~fs[Inp(w).FilePath].exists
       THEN /\ ret' = [ret EXCEPT ![w] = ErrRet("failed to open file")]
            /\ pc' = [pc EXCEPT ![w] = FinishPc]
       ELSE /\ pc' = [pc EXCEPT ![w] = "s_header"]
            /\ UNCHANGED ret
    /\ Report(w, <<Ev("parse_start", 0)>>)
    /\ UNCHANGED <<otherVars, envVars, ctDone, txLog, sinkVars, aggVars, pos, headers, batch, rowCount,
                   rowsWritten, parsed, ibVars>>

SHeader(w) ==
    /\ pc[w] = "s_header"
    /\ LET r == ReaderRead(fs[Inp(w).FilePath].recs, pos[w]) IN
       IF r.err # Nil
       THEN /\ ret' = [ret EXCEPT ![w] =
                         ErrRet(IF Inp(w).HasHeader THEN "failed to read header"
                                ELSE "failed to read first row")]
            /\ pc' = [pc EXCEPT ![w] = FinishPc]
            /\ UNCHANGED <<headers, pos>>
       ELSE /\ headers' = [headers EXCEPT ![w] =
                             IF Inp(w).HasHeader THEN r.rec
                             ELSE SynthHeaders(Len(r.rec))]
            /\ pos' = [pos EXCEPT ![w] = pos[w] + 1]
            /\ pc' = [pc EXCEPT ![w] = CreateTablePc]
            /\ UNCHANGED ret
    /\ UNCHANGED <<otherVars, envVars, ctDone, txLog, events, sinkVars, aggVars, batch, rowCount, rowsWritten,
                   parsed, ibVars>>

\* a loop that never finds the batch full
BatchFullNever(b) == FALSE

\* len(batch) >= database.BatchSize
BatchFull(b) == Len(b) >= BatchSize

\* one iteration of the streaming loop, up to the call of InsertBatch
SRead(w) ==
    /\ pc[w] = "s_read"
    /\ LET r == ReaderRead(fs[Inp(w).FilePath].recs, pos[w]) IN
       IF r.err = EOF
       THEN IF Len(batch[w]) > 0
            THEN /\ ibFrom' = [ibFrom EXCEPT ![w] = "final"]
                 /\ pc' = [pc EXCEPT ![w] = "ib_begin"]
                 /\ UNCHANGED <<ret, batch, rowCount, pos>>
            ELSE /\ ret' = [ret EXCEPT ![w] = OkRet(Inp(w).TableName, rowCount[w])]
                 /\ pc' = [pc EXCEPT ![w] = FinishPc]
                 /\ UNCHANGED <<ibFrom, batch, rowCount, pos>>
       ELSE IF r.err # Nil
       THEN /\ ret' = [ret EXCEPT ![w] = ErrRet("failed to read row")]
            /\ pc' = [pc EXCEPT ![w] = FinishPc]
            /\ UNCHANGED <<ibFrom, batch, rowCount, pos>>
       ELSE /\ batch' = [batch EXCEPT ![w] = Append(batch[w], r.rec)]
            /\ rowCount' = [rowCount EXCEPT ![w] = rowCount[w] + 1]
            /\ pos' = [pos EXCEPT ![w] = pos[w] + 1]
            /\ IF BatchFull(Append(batch[w], r.rec))
               THEN /\ ibFrom' = [ibFrom EXCEPT ![w] = "loop"]
                    /\ pc' = [pc EXCEPT ![w] = "ib_begin"]
               ELSE UNCHANGED <<ibFrom, pc>>
            /\ UNCHANGED ret
    /\ LET r == ReaderRead(fs[Inp(w).FilePath].recs, pos[w]) IN
       IF r.err = Nil /\ ParseProgressDue(rowCount[w] + 1)
       THEN Report(w, <<Ev("parse_progress", rowCount[w] + 1)>>)
       ELSE UNCHANGED events
    /\ UNCHANGED <<otherVars, envVars, ctDone, txLog, sinkVars, aggVars, headers, rowsWritten, parsed,
                   ibIdx, ibErr>>

\* InsertBatch returned to the streaming loop
SLoopFlushed(w) ==
    /\ pc[w] = "ib_ret" /\ ibFrom[w] = "loop"
    /\ IF ibErr[w] # Nil
       THEN /\ ret' = [ret EXCEPT ![w] = ErrRet("failed to insert batch")]
            /\ pc' = [pc EXCEPT ![w] = FinishPc]
            /\ UNCHANGED <<rowsWritten, batch>>
       ELSE /\ rowsWritten' = [rowsWritten EXCEPT ![w] = rowsWritten[w] + Len(batch[w])]
            /\ batch' = [batch EXCEPT ![w] = <<>>]
            /\ pc' = [pc EXCEPT ![w] = "s_read"]
            /\ UNCHANGED ret
    /\ IF ibErr[w] = Nil
       THEN Report(w, <<Ev("write_progress", rowsWritten[w] + Len(batch[w]))>>)
       ELSE UNCHANGED events
    /\ UNCHANGED <<otherVars, envVars, ctDone, txLog, sinkVars, aggVars, pos, headers, rowCount, parsed, ibVars>>

\* InsertBatch returned from the flush of the trailing batch
SFinalFlushed(w) ==
    /\ pc[w] = "ib_ret" /\ ibFrom[w] = "final"
    /\ IF ibErr[w] # Nil
       THEN /\ ret' = [ret EXCEPT ![w] = ErrRet("failed to insert final batch")]
            /\ UNCHANGED rowsWritten
       ELSE /\ rowsWritten' = [rowsWritten EXCEPT ![w] = rowsWritten[w] + Len(batch[w])]
            /\ ret' = [ret EXCEPT ![w] = OkRet(Inp(w).TableName, rowCount[w])]
    /\ pc' = [pc EXCEPT ![w] = FinishPc]
    /\ IF ibErr[w] = Nil
       THEN Report(w, <<Ev("write_progress", rowsWritten[w] + Len(batch[w]))>>)
       ELSE UNCHANGED events
    /\ UNCHANGED <<otherVars, envVars, ctDone, txLog, sinkVars, aggVars, pos, headers, batch, rowCount,
                   parsed, ibVars>>


\* ------------------------------------------------------------- CreateTable
\* DROP TABLE IF EXISTS: refused while another connection holds the write lock
CtDrop(w) ==
    /\ pc[w] = "ct_drop"
    /\ \E ok \in BOOLEAN :
         /\ ok => writer = 0
         /\ IF ok
            THEN /\ tables' = [tables EXCEPT ![Inp(w).TableName] = NoTable]
                 /\ pc' = [pc EXCEPT ![w] = "ct_create"]
                 /\ UNCHANGED ret
            ELSE /\ ret' = [ret EXCEPT ![w] = ErrRet("failed to create table")]
                 /\ pc' = [pc EXCEPT ![w] = FinishPc]
                 /\ UNCHANGED tables
    /\ UNCHANGED <<otherVars, envVars, ctDone, txLog, events, aggVars, writer, txOpen, txPending, pos, headers,
                   batch, rowCount, rowsWritten, parsed, ibVars>>

\* CREATE TABLE t (<sanitized header> TEXT, ...): refused when the table
\* exists or two columns have the same name
CtCreate(w) ==
    /\ pc[w] = "ct_create"
    /\ \E ok \in BOOLEAN :
         /\ ok => /\ writer = 0
                  /\ ~tables[Inp(w).TableName].exists
                  /\ NoDuplicates(SanitizeAll(headers[w]))
         /\ IF ok
            THEN /\ tables' = [tables EXCEPT ![Inp(w).TableName] =
                                 [exists |-> TRUE, cols |-> SanitizeAll(headers[w]),
                                  rows |-> <<>>]]
                 /\ ctDone' = [ctDone EXCEPT ![w] = TRUE]
                 /\ pc' = [pc EXCEPT ![w] = AfterCreatePc]
                 /\ IF mode = "streaming"
                    THEN Report(w, <<Ev("write_start", 0)>>)
                    ELSE UNCHANGED events
                 /\ UNCHANGED ret
            ELSE /\ ret' = [ret EXCEPT ![w] = ErrRet("failed to create table")]
                 /\ pc' = [pc EXCEPT ![w] = FinishPc]
                 /\ UNCHANGED <<tables, ctDone, events>>
    /\ UNCHANGED <<otherVars, envVars, txLog, aggVars, writer, txOpen, txPending, pos, headers,
                   batch, rowCount, rowsWritten, parsed, ibVars>>

\* ------------------------------------------------------------- InsertBatch
\* the statement names existing columns of an existing table
StatementValid(w) ==
    /\ tables[Inp(w).TableName].exists
    /\ Range(SanitizeAll(headers[w])) \subseteq Range(tables[Inp(w).TableName].cols)

\* the deferred tx.Rollback on an error return
IbFail(w, msg) ==
    /\ txOpen' = [txOpen EXCEPT ![w] = FALSE]
    /\ txPending' = [txPending EXCEPT ![w] = <<>>]
    /\ writer' = IF writer = w THEN 0 ELSE writer
    /\ ibErr' = [ibErr EXCEPT ![w] = msg]
    /\ pc' = [pc EXCEPT ![w] = "ib_ret"]
    /\ UNCHANGED <<tables, ibIdx>>

IbBegin(w) ==
    /\ pc[w] = "ib_begin"
    /\ IF Len(batch[w]) = 0
       THEN /\ ibErr' = [ibErr EXCEPT ![w] = Nil]
            /\ pc' = [pc EXCEPT ![w] = "ib_ret"]
            /\ UNCHANGED <<sinkVars, ibIdx, txLog>>
       ELSE \E ok \in BOOLEAN :
            IF ok
            THEN /\ txOpen' = [txOpen EXCEPT ![w] = TRUE]
                 /\ txPending' = [txPending EXCEPT ![w] = <<>>]
                 /\ txLog' = [txLog EXCEPT ![w] = Append(@, batch[w])]
                 /\ pc' = [pc EXCEPT ![w] = "ib_prepare"]
                 /\ UNCHANGED <<tables, writer, ibIdx, ibErr>>
            ELSE IbFail(w, "failed to begin transaction") /\ UNCHANGED txLog
    /\ UNCHANGED <<otherVars, envVars, ctDone, events, aggVars, pos, headers, batch, rowCount,
                   rowsWritten, parsed, ibFrom, ret>>

IbPrepare(w) ==
    /\ pc[w] = "ib_prepare"
    /\ \E ok \in BOOLEAN :
         /\ ok => StatementValid(w)
         /\ IF ok
            THEN /\ ibIdx' = [ibIdx EXCEPT ![w] = 1]
                 /\ pc' = [pc EXCEPT ![w] = "ib_exec"]
                 /\ UNCHANGED <<sinkVars, ibErr>>
            ELSE IbFail(w, "failed to prepare statement")
    /\ UNCHANGED <<otherVars, envVars, ctDone, txLog, events, aggVars, pos, headers, batch, rowCount, rowsWritten,
                   parsed, ibFrom, ret>>

\* an Exec that runs on the database handle outside the transaction: the
\* row is committed at once
IbExecAutocommit(w) ==
    /\ pc[w] = "ib_exec"
    /\ \E ok \in BOOLEAN :
         /\ ok => StatementValid(w) /\ writer \in {0, w}
         /\ IF ok
            THEN /\ tables' = [tables EXCEPT ![Inp(w).TableName].rows =
                        Append(@, RowFor(tables[Inp(w).TableName].cols,
                                         SanitizeAll(headers[w]),
                                         PadRow(headers[w], batch[w][ibIdx[w]])))]
                 /\ ibIdx' = [ibIdx EXCEPT ![w] = ibIdx[w] + 1]
                 /\ pc' = [pc EXCEPT ![w] =
                             IF ibIdx[w] = Len(batch[w]) THEN "ib_commit" ELSE "ib_exec"]
                 /\ UNCHANGED <<writer, txOpen, txPending, ibErr>>
            ELSE IbFail(w, "failed to insert row")
    /\ UNCHANGED <<otherVars, envVars, ctDone, txLog, events, aggVars, pos, headers, batch, rowCount, rowsWritten,
                   parsed, ibFrom, ret>>

\* stmt.Exec of one row: takes the write lock, the row stays uncommitted
IbExec(w) ==
    /\ pc[w] = "ib_exec"
    /\ \E ok \in BOOLEAN :
         /\ ok => StatementValid(w) /\ writer \in {0, w}
         /\ IF ok
            THEN /\ txPending' = [txPending EXCEPT ![w] =
                        Append(txPending[w],
                               RowFor(tables[Inp(w).TableName].cols,
                                      SanitizeAll(headers[w]),
                                      PadRow(headers[w], batch[w][ibIdx[w]])))]
                 /\ writer' = w
                 /\ ibIdx' = [ibIdx EXCEPT ![w] = ibIdx[w] + 1]
                 /\ pc' = [pc EXCEPT ![w] =
                             IF ibIdx[w] = Len(batch[w]) THEN "ib_commit" ELSE "ib_exec"]
                 /\ UNCHANGED <<tables, txOpen, ibErr>>
            ELSE IbFail(w, "failed to insert row")
    /\ UNCHANGED <<otherVars, envVars, ctDone, txLog, events, aggVars, pos, headers, batch, rowCount, rowsWritten,
                   parsed, ibFrom, ret>>

IbCommit(w) ==
    /\ pc[w] = "ib_commit"
    /\ \E ok \in BOOLEAN :
         IF ok
         THEN /\ tables' = [tables EXCEPT ![Inp(w).TableName].rows = @ \o txPending[w]]
              /\ txOpen' = [txOpen EXCEPT ![w] = FALSE]
              /\ txPending' = [txPending EXCEPT ![w] = <<>>]
              /\ writer' = 0
              /\ ibErr' = [ibErr EXCEPT ![w] = Nil]
              /\ pc' = [pc EXCEPT ![w] = "ib_ret"]
              /\ UNCHANGED ibIdx
         ELSE IbFail(w, "failed to commit transaction")
    /\ UNCHANGED <<otherVars, envVars, ctDone, txLog, events, aggVars, pos, headers, batch, rowCount, rowsWritten,
                   parsed, ibFrom, ret>>


\* --------------------------------------------------------------- ParseFile
\* where ParseFile returns to: the parse goroutine ends (staged) or Import
\* goes on with WriteToDatabase
ParsedPc == IF mode = "import" THEN "wtd" ELSE "parsed"

PfOpen(w) ==
    /\ pc[w] = "pf_open"
    /\ IF ~fs[Inp(w).FilePath].exists
       THEN /\ parsed' = [parsed EXCEPT ![w].Error = "failed to open file"]
            /\ pc' = [pc EXCEPT ![w] = ParsedPc]
       ELSE /\ pc' = [pc EXCEPT ![w] = "pf_header"]
            /\ UNCHANGED parsed
    /\ IF mode # "staged" THEN UNCHANGED events
       ELSE IF ~fs[Inp(w).FilePath].exists
       THEN Report(w, <<Ev("parse_start", 0), Ev("parse_error", 0)>>)
       ELSE Report(w, <<Ev("parse_start", 0)>>)
    /\ UNCHANGED <<otherVars, envVars, ctDone, txLog, sinkVars, aggVars, pos, headers, batch, rowCount,
                   rowsWritten, ibVars, ret>>

PfHeader(w) ==
    /\ pc[w] = "pf_header"
    /\ LET r == ReaderRead(fs[Inp(w).FilePath].recs, pos[w]) IN
       IF r.err # Nil
       THEN /\ parsed' = [parsed EXCEPT ![w].Error =
                            IF Inp(w).HasHeader THEN "failed to read header"
                            ELSE "failed to read first row"]
            /\ pc' = [pc EXCEPT ![w] = ParsedPc]
            /\ UNCHANGED <<headers, pos>>
       ELSE /\ headers' = [headers EXCEPT ![w] =
                             IF Inp(w).HasHeader THEN r.rec
                             ELSE SynthHeaders(Len(r.rec))]
            /\ parsed' = [parsed EXCEPT ![w].Rows =
                            IF Inp(w).HasHeader THEN @ ELSE Append(@, r.rec)]
            /\ pos' = [pos EXCEPT ![w] = pos[w] + 1]
            /\ pc' = [pc EXCEPT ![w] = "pf_read"]
    /\ IF mode = "staged" /\ ReaderRead(fs[Inp(w).FilePath].recs, pos[w]).err # Nil
       THEN Report(w, <<Ev("parse_error", 0)>>)
       ELSE UNCHANGED events
    /\ UNCHANGED <<otherVars, envVars, ctDone, txLog, sinkVars, aggVars, batch, rowCount, rowsWritten,
                   ibVars, ret>>

PfRead(w) ==
    /\ pc[w] = "pf_read"
    /\ LET r == ReaderRead(fs[Inp(w).FilePath].recs, pos[w]) IN
       IF r.err = EOF
       THEN /\ pc' = [pc EXCEPT ![w] = ParsedPc]
            /\ UNCHANGED <<parsed, pos>>
       ELSE IF r.err # Nil
       THEN /\ parsed' = [parsed EXCEPT ![w].Error = "failed to read row"]
            /\ pc' = [pc EXCEPT ![w] = ParsedPc]
            /\ UNCHANGED pos
       ELSE /\ parsed' = [parsed EXCEPT ![w].Rows = Append(@, r.rec)]
            /\ pos' = [pos EXCEPT ![w] = pos[w] + 1]
            /\ UNCHANGED pc
    /\ LET r == ReaderRead(fs[Inp(w).FilePath].recs, pos[w]) IN
       IF mode # "staged" \/ r.err = Nil THEN UNCHANGED events
       ELSE IF r.err = EOF
       THEN Report(w, <<Ev("parse_complete", Len(parsed[w].Rows))>>)
       ELSE Report(w, <<Ev("parse_error", 0)>>)
    /\ UNCHANGED <<otherVars, envVars, ctDone, txLog, sinkVars, aggVars, headers, batch, rowCount,
                   rowsWritten, ibVars, ret>>

\* staged ImportConcurrent: wg.Wait() on the parse goroutines, then one
\* write goroutine per parsed file
StartWrites ==
    /\ mainpc = "wait_parse"
    /\ \A w \in Active : pc[w] = "parsed"
    /\ mainpc' = "wait"
    /\ pc' = [w \in Workers |-> IF w \in Active THEN "wtd" ELSE pc[w]]
    /\ UNCHANGED <<otherVars, envVars, ctDone, txLog, events, sinkVars, pos, headers, batch, rowCount, rowsWritten,
                   parsed, ibVars, ret, resultsMu, results, errs, retval>>

\* --------------------------------------------------------- WriteToDatabase
Wtd(w) ==
    /\ pc[w] = "wtd"
    /\ IF parsed[w].Error # Nil
       THEN /\ ret' = [ret EXCEPT ![w] = ErrRet(parsed[w].Error)]
            /\ pc' = [pc EXCEPT ![w] = FinishPc]
       ELSE /\ pc' = [pc EXCEPT ![w] = CreateTablePc]
            /\ UNCHANGED ret
    /\ IF mode = "staged"
       THEN Report(w, <<Ev("write_start", 0)>>)
       ELSE UNCHANGED events
    /\ UNCHANGED <<otherVars, envVars, ctDone, txLog, sinkVars, aggVars, pos, headers, batch, rowCount,
                   rowsWritten, parsed, ibVars>>

Min(a, b) == IF a < b THEN a ELSE b

\* head of the batch loop: i is the number of rows written so far
WtdLoop(w) ==
    /\ pc[w] = "wtd_loop"
    /\ LET n == Len(parsed[w].Rows)
           i == rowsWritten[w]
       IN  IF i < n
           THEN /\ batch' = [batch EXCEPT ![w] =
                               SubSeq(parsed[w].Rows, i + 1, Min(i + BatchSize, n))]
                /\ rowCount' = [rowCount EXCEPT ![w] = n]
                /\ ibFrom' = [ibFrom EXCEPT ![w] = "wtd"]
                /\ pc' = [pc EXCEPT ![w] = "ib_begin"]
                /\ UNCHANGED ret
           ELSE /\ ret' = [ret EXCEPT ![w] = OkRet(Inp(w).TableName, n)]
                /\ pc' = [pc EXCEPT ![w] = FinishPc]
                /\ rowCount' = [rowCount EXCEPT ![w] = n]
                /\ UNCHANGED <<batch, ibFrom>>
    /\ UNCHANGED <<otherVars, envVars, ctDone, txLog, events, sinkVars, aggVars, pos, headers, rowsWritten, parsed,
                   ibIdx, ibErr>>

WtdFlushed(w) ==
    /\ pc[w] = "ib_ret" /\ ibFrom[w] = "wtd"
    /\ IF ibErr[w] # Nil
       THEN /\ ret' = [ret EXCEPT ![w] = ErrRet("failed to insert batch")]
            /\ pc' = [pc EXCEPT ![w] = FinishPc]
            /\ UNCHANGED rowsWritten
       ELSE /\ rowsWritten' = [rowsWritten EXCEPT ![w] = rowsWritten[w] + Len(batch[w])]
            /\ pc' = [pc EXCEPT ![w] = "wtd_loop"]
            /\ UNCHANGED ret
    /\ UNCHANGED <<otherVars, envVars, ctDone, txLog, events, sinkVars, aggVars, pos, headers, batch, rowCount,
                   parsed, ibVars>>

\* ------------------------------------------------- aggregation and return
Lock(w) ==
    /\ pc[w] = "lock"
    /\ resultsMu = 0
    /\ resultsMu' = w
    /\ pc' = [pc EXCEPT ![w] = "append"]
    /\ UNCHANGED <<otherVars, envVars, ctDone, txLog, events, sinkVars, pos, headers, batch, rowCount, rowsWritten,
                   parsed, ibVars, ret, results, errs, retval, mainpc>>

\* fmt.Errorf("%s: %w", inp.FilePath, err)
PathError(path, err) == [path |-> path, err |-> err]

\* the critical section: append the outcome, then resultsMu.Unlock()
AppendOutcome(w) ==
    /\ pc[w] = "append"
    /\ IF ret[w].kind = "err"
       THEN /\ errs' = Append(errs, PathError(Inp(w).FilePath, ret[w].err))
            /\ UNCHANGED results
       ELSE /\ results' = Append(results,
                                 [TableName |-> ret[w].TableName,
                                  RowCount |-> ret[w].RowCount])
            /\ UNCHANGED errs
    /\ resultsMu' = 0
    /\ pc' = [pc EXCEPT ![w] = "done"]
    /\ Report(w, IF ret[w].kind = "err"
                 THEN <<Ev(IF mode = "streaming" THEN "parse_error" ELSE "write_error", 0)>>
                 ELSE IF mode = "streaming"
                 THEN <<Ev("parse_complete", ret[w].RowCount),
                        Ev("write_complete", ret[w].RowCount)>>
                 ELSE <<Ev("write_complete", ret[w].RowCount)>>)
    /\ UNCHANGED <<otherVars, envVars, ctDone, txLog, sinkVars, pos, headers, batch, rowCount, rowsWritten,
                   parsed, ibVars, ret, retval, mainpc>>

\* a wait that is over as soon as one worker is done
WgWaitAny == \E w \in Active : pc[w] = "done"
\* importWg.Wait() / writeWg.Wait(): every worker has called wg.Done()
WgWait == \A w \in Active : pc[w] = "done"

\* ImportConcurrent: wg.Wait(), then return results, errors.Join(errs...)
Return ==
    /\ mainpc = "wait"
    /\ mode # "import"
    /\ WgWait
    /\ retval' = [done |-> TRUE, results |-> results, err |-> JoinErrors(errs)]
    /\ mainpc' = "returned"
    /\ UNCHANGED <<otherVars, envVars, ctDone, txLog, events, sinkVars, pc, pos, headers, batch, rowCount,
                   rowsWritten, parsed, ibVars, ret, resultsMu, results, errs>>

\* Import: return WriteToDatabase(db, parsed)
ImportReturn ==
    /\ mainpc = "wait"
    /\ mode = "import"
    /\ pc[1] = "done"
    /\ retval' = [done |-> TRUE,
                  results |-> IF ret[1].kind = "ok"
                              THEN <<[TableName |-> ret[1].TableName,
                                      RowCount |-> ret[1].RowCount]>>
                              ELSE <<>>,
                  err |-> JoinErrors(IF ret[1].kind = "err"
                                     THEN <<PathError(Inp(1).FilePath, ret[1].err)>>
                                     ELSE <<>>)]
    /\ mainpc' = "returned"
    /\ UNCHANGED <<otherVars, envVars, ctDone, txLog, events, sinkVars, pc, pos, headers, batch, rowCount,
                   rowsWritten, parsed, ibVars, ret, resultsMu, results, errs>>

WorkerStep(w) ==
    \/ SOpen(w) \/ SHeader(w) \/ SRead(w) \/ SLoopFlushed(w) \/ SFinalFlushed(w)
    \/ CtDrop(w) \/ CtCreate(w)
    \/ IbBegin(w) \/ IbPrepare(w) \/ IbExec(w) \/ IbCommit(w)
    \/ PfOpen(w) \/ PfHeader(w) \/ PfRead(w)
    \/ Wtd(w) \/ WtdLoop(w) \/ WtdFlushed(w)
    \/ Lock(w) \/ AppendOutcome(w)

Next ==
    \/ Call
    \/ StartWrites
    \/ Return
    \/ ImportReturn
    \/ \E w \in Workers : WorkerStep(w)

Spec == Init /\ [][Next]_vars


\* ------------------------------------------------------- one file alone
\* The same entry points given at most one input, whose file may hold rows
\* of another width than its first record and enough rows for several
\* progress reports.
MaxRows == 2 * ProgressInterval + 1

\* the i-th record of the file at path p, cut or extended to width fields
RecOfWidth(p, i, width) ==
    SubSeq(Rec(p, i) \o << <<"x", DigitChar(i)>> >>, 1, width)

\* a file of n records whose k-th record has width fields instead of two
MkRagged(p, n, k, width) ==
    [exists |-> TRUE,
     recs |-> [i \in 1..n |->
                 [bad |-> FALSE,
                  fields |-> IF i = k THEN RecOfWidth(p, i, width) ELSE Rec(p, i)]]]

RaggedFiles(p) ==
    {MkRagged(p, n, k, width) : n \in 2..3, k \in 1..3, width \in {1, 3}}
LongFiles(p) == {MkFile(p, n, 0) : n \in 0..(MaxRows + 1)}

\* the state at the call of the entry point
AtEntry ==
    /\ writer = 0
    /\ txOpen = [w \in Workers |-> FALSE]
    /\ txPending = [w \in Workers |-> <<>>]
    /\ mainpc = "call"
    /\ pc = [w \in Workers |-> "idle"]
    /\ pos = [w \in Workers |-> 0]
    /\ headers = [w \in Workers |-> <<>>]
    /\ batch = [w \in Workers |-> <<>>]
    /\ rowCount = [w \in Workers |-> 0]
    /\ rowsWritten = [w \in Workers |-> 0]
    /\ parsed = [w \in Workers |-> NoParsed]
    /\ ibIdx = [w \in Workers |-> 0]
    /\ ibErr = [w \in Workers |-> Nil]
    /\ ibFrom = [w \in Workers |-> Nil]
    /\ ret = [w \in Workers |-> NoRet]
    /\ resultsMu = 0
    /\ results = <<>>
    /\ errs = <<>>
    /\ retval = [done |-> FALSE, results |-> <<>>, err |-> JoinErrors(<<>>)]
    /\ ctDone = [w \in Workers |-> FALSE]
    /\ txLog = [w \in Workers |-> <<>>]
    /\ events = [w \in Workers |-> <<>>]

FileInit ==
    /\ mode \in {"streaming", "staged", "import"}
    /\ \E n \in 0..1 :
         /\ mode = "import" => n = 1
         /\ inputs \in InputSets(n)
         /\ \E c \in FileContents("p1") \cup RaggedFiles("p1") \cup LongFiles("p1") :
              /\ n = 0 => c = Missing
              /\ fs = [p \in Paths |-> IF p = "p1" THEN c ELSE Missing]
    /\ tables \in {[t \in TableNames |-> NoTable], [t \in TableNames |-> OldTable]}
    /\ AtEntry
    /\ SanQuiet
    /\ DbQuiet
    /\ CliQuiet
    /\ RunQuiet

FileSpec == FileInit /\ [][Next]_vars

\* ------------------------------------------------- SanitizeColumnName alone
\* longest raw column name given to SanitizeColumnName
MaxNameLen == 3
\* calls made on one name
MaxSanCalls == 3
\* characters of raw names: whitespace, letters, a digit, the underscore
\* and characters outside [A-Za-z0-9_]
NameChars == {" ", "\t", "a", "Z", "7", "_", "-", "."}
Names == UNION {[1..k -> NameChars] : k \in 0..MaxNameLen}

\* no import is running
ImportQuiet ==
    /\ mode = "none"
    /\ inputs = <<>>
    /\ fs = [p \in Paths |-> Missing]
    /\ tables = [t \in TableNames |-> NoTable]
    /\ writer = 0
    /\ txOpen = [w \in Workers |-> FALSE]
    /\ txPending = [w \in Workers |-> <<>>]
    /\ mainpc = "none"
    /\ pc = [w \in Workers |-> "idle"]
    /\ pos = [w \in Workers |-> 0]
    /\ headers = [w \in Workers |-> <<>>]
    /\ batch = [w \in Workers |-> <<>>]
    /\ rowCount = [w \in Workers |-> 0]
    /\ rowsWritten = [w \in Workers |-> 0]
    /\ parsed = [w \in Workers |-> NoParsed]
    /\ ibIdx = [w \in Workers |-> 0]
    /\ ibErr = [w \in Workers |-> Nil]
    /\ ibFrom = [w \in Workers |-> Nil]
    /\ ret = [w \in Workers |-> NoRet]
    /\ resultsMu = 0
    /\ results = <<>>
    /\ errs = <<>>
    /\ retval = [done |-> FALSE, results |-> <<>>, err |-> JoinErrors(<<>>)]
    /\ ctDone = [w \in Workers |-> FALSE]
    /\ txLog = [w \in Workers |-> <<>>]
    /\ events = [w \in Workers |-> <<>>]

SanInit ==
    /\ ImportQuiet
    /\ DbQuiet
    /\ CliQuiet
    /\ RunQuiet
    /\ sanName \in Names
    /\ sanLog = <<>>

\* SanitizeColumnName(name) is called and returns
SanCall(name) ==
    /\ Len(sanLog) < MaxSanCalls
    /\ sanLog' = Append(sanLog, [arg |-> name, out |-> SanitizeColumnName(name)])
    /\ UNCHANGED <<runVars, importVars, dbVars, cliVars, sanName>>

\* a call on the raw name
SanitizeName == SanCall(sanName)

\* a call on a value an earlier call returned
SanitizeResult == \E i \in 1..Len(sanLog) : SanCall(sanLog[i].out)

SanNext == SanitizeName \/ SanitizeResult

SanSpec == SanInit /\ [][SanNext]_vars

\* ------------------------------------------------ the database package alone
\* calls one caller makes
MaxDbCalls == 3
\* longest header list and longest list of index columns
MaxColumns == 2
\* rows in one batch given to InsertBatch directly
MaxBatchRows == 2

\* the table name the caller uses
TableT == <<"t">>
\* raw header names: two that differ in case only, two with the same
\* sanitized form
ColumnNames == {<<"a">>, <<"A">>, <<"a", " ", "b">>, <<"a", "_", "b">>}
HeaderLists == UNION {[1..k -> ColumnNames] : k \in 1..MaxColumns}
\* names asked for as index columns: some of the above and one no header has
IndexColumns == {<<"A">>, <<"a", " ", "b">>, <<"z">>}
IndexLists == UNION {[1..k -> IndexColumns] : k \in 0..MaxColumns}
\* rows of every width from 0 to MaxColumns + 1
FieldValues == << <<"x">>, <<"y">>, <<"z">>, <<"w">> >>
Rows == [n \in 1..(MaxColumns + 2) |-> SubSeq(FieldValues, 1, n - 1)]
\* batches: up to MaxBatchRows of these rows, in the order above
Pick(S) == [k \in 1..Cardinality(S) |->
              Rows[CHOOSE x \in S : Cardinality({y \in S : y < x}) = k - 1]]
Batches == {Pick(S) : S \in {T \in SUBSET (1..Len(Rows)) : Cardinality(T) <= MaxBatchRows}}

\* a table and indexes left in the database by someone else
OldT == [exists |-> TRUE, cols |-> << <<"a">>, <<"z">> >>,
         rows |-> << << <<"o">>, <<"o">> >> >>]
IndexName(t, c) == <<"i", "d", "x", "_">> \o t \o <<"_">> \o c
OldIndex == [name |-> IndexName(TableT, <<"z">>), table |-> TableT, column |-> <<"z">>]
\* an index of another table that has the name CreateIndex gives to t.a
ForeignIndex == [name |-> IndexName(TableT, <<"a">>), table |-> <<"u">>, column |-> <<"k">>]

DbInit ==
    /\ ImportQuiet
    /\ SanQuiet
    /\ CliQuiet
    /\ RunQuiet
    /\ dbHeaders \in HeaderLists
    /\ dbTable \in {NoTable, OldT}
    /\ dbIndexes \in {ixs \in SUBSET {OldIndex, ForeignIndex} :
                        OldIndex \in ixs => dbTable = OldT}
    /\ dbPc = "idle"
    /\ dbCall = NoCall
    /\ dbI = 0
    /\ dbRet = NoErr
    /\ dbPre = [table |-> dbTable, indexes |-> dbIndexes]
    /\ dbAgain = FALSE
    /\ dbCalls = 0

SinkErr(msg) == [kind |-> msg, missing |-> <<>>]

\* the caller enters a function of the package
StartCall(c) ==
    /\ dbPc = "idle"
    /\ dbCalls < MaxDbCalls
    /\ dbCalls' = dbCalls + 1
    /\ dbCall' = c
    /\ dbAgain' = (c = dbCall /\ dbRet = NoErr)
    /\ dbPre' = [table |-> dbTable, indexes |-> dbIndexes]

\* a CreateTable whose two statements are one transaction
TableAfterAtomicCreateTable(outcome) ==
    IF outcome = "ok"
    THEN [exists |-> TRUE, cols |-> SanitizeAll(dbHeaders), rows |-> <<>>]
    ELSE dbTable
\* the table t after CreateTable's two db.Exec calls: a failed DROP leaves
\* it, a failed CREATE comes after the DROP was done
TableAfterCreateTable(outcome) ==
    CASE outcome = "failed to drop table" -> dbTable
      [] outcome = "failed to create table" -> NoTable
      [] OTHER -> [exists |-> TRUE, cols |-> SanitizeAll(dbHeaders), rows |-> <<>>]

\* CreateTable(db, t, headers): DROP TABLE IF EXISTS takes the indexes of
\* the table with it; CREATE TABLE refuses two columns of the same name
DbCreateTable ==
    /\ StartCall([op |-> "CreateTable", columns |-> dbHeaders, batch |-> <<>>])
    /\ \E outcome \in {"failed to drop table", "failed to create table", "ok"} :
         /\ outcome = "ok" => NoDuplicates(SanitizeAll(dbHeaders))
         /\ dbTable' = TableAfterCreateTable(outcome)
         /\ dbIndexes' = IF outcome = "failed to drop table" THEN dbIndexes
                         ELSE {ix \in dbIndexes : ix.table # TableT}
         /\ dbRet' = IF outcome = "ok" THEN NoErr ELSE SinkErr(outcome)
    /\ UNCHANGED <<runVars, importVars, sanVars, cliVars, dbHeaders, dbPc, dbI>>

\* the caller's CreateTable(db, t, headers) has succeeded: every caller
\* returns on its error before it calls InsertBatch
Created == dbTable.exists /\ dbTable.cols = SanitizeAll(dbHeaders)

\* InsertBatch(db, t, headers, batch) as one step: nothing on an empty
\* batch; any failure rolls the transaction back; success commits one row
\* per row of the batch
DbInsertBatch ==
    /\ Created
    /\ \E b \in Batches :
         /\ StartCall([op |-> "InsertBatch", columns |-> dbHeaders, batch |-> b])
         /\ IF Len(b) = 0
            THEN dbRet' = NoErr /\ UNCHANGED dbTable
            ELSE \E ok \in BOOLEAN :
                   IF ok
                   THEN /\ dbRet' = NoErr
                        /\ dbTable' = [dbTable EXCEPT !.rows =
                             @ \o [k \in 1..Len(b) |->
                                     RowFor(dbTable.cols, SanitizeAll(dbHeaders),
                                            PadRow(dbHeaders, b[k]))]]
                   ELSE /\ dbRet' = SinkErr("failed to insert row")
                        /\ UNCHANGED dbTable
    /\ UNCHANGED <<runVars, importVars, sanVars, cliVars, dbHeaders, dbIndexes, dbPc, dbI>>

\* GetTableColumns: PRAGMA table_info lists nothing for a table that does
\* not exist
GetTableColumns(tbl) == IF tbl.exists THEN tbl.cols ELSE <<>>

\* a validation that looks the raw name up
RawColumn(col) == col
\* sanitized := SanitizeColumnName(col)
Sanitized(col) == SanitizeColumnName(col)

\* !existing[strings.ToLower(sanitized)]
IsMissing(tbl, col) ==
    \A k \in 1..Len(GetTableColumns(tbl)) :
       ToLower(GetTableColumns(tbl)[k]) # ToLower(Sanitized(col))

\* a validation that finds nothing missing
ValidateNothing(tbl, columns) == NoErr
\* ValidateColumns once GetTableColumns has returned: an error naming
\* every missing column, or nil
ValidateColumns(tbl, columns) ==
    LET missing == SelectSeq(columns, LAMBDA col : IsMissing(tbl, col)) IN
    IF Len(missing) > 0
    THEN [kind |-> "columns not found", missing |-> missing]
    ELSE NoErr

IndexExists(ixs, name) == \E ix \in ixs : ToLower(ix.name) = ToLower(name)

\* CREATE INDEX without IF NOT EXISTS
ExecCreateIndexStrict(ixs, column) ==
    LET name == IndexName(TableT, SanitizeColumnName(column)) IN
    IF IndexExists(ixs, name)
    THEN [ret |-> SinkErr("index already exists"), indexes |-> ixs]
    ELSE [ret |-> NoErr,
          indexes |-> ixs \cup {[name |-> name, table |-> TableT,
                                 column |-> SanitizeColumnName(column)]}]
\* CREATE INDEX IF NOT EXISTS idx_<t>_<sanitized> ON t (<sanitized>)
ExecCreateIndex(ixs, column) ==
    LET name == IndexName(TableT, SanitizeColumnName(column)) IN
    [ret |-> NoErr,
     indexes |-> IF IndexExists(ixs, name) THEN ixs
                 ELSE ixs \cup {[name |-> name, table |-> TableT,
                                 column |-> SanitizeColumnName(column)]}]

\* what the sink does to the calls of one CreateIndex
SinkOutcomes == {"failed to get table info", "failed to create index", "ok"}

\* CreateIndex(db, t, column): validate the column, then create the index
CreateIndex(column, outcome) ==
    IF outcome = "failed to get table info"
    THEN [ret |-> SinkErr(outcome), indexes |-> dbIndexes]
    ELSE IF ValidateColumns(dbTable, <<column>>) # NoErr
    THEN [ret |-> ValidateColumns(dbTable, <<column>>), indexes |-> dbIndexes]
    ELSE IF outcome = "failed to create index"
    THEN [ret |-> SinkErr(outcome), indexes |-> dbIndexes]
    ELSE ExecCreateIndex(dbIndexes, column)

\* a direct call of ValidateColumns
DbValidateColumns ==
    /\ \E columns \in {<<c>> : c \in IndexColumns \cup Range(dbHeaders)} :
         /\ StartCall([op |-> "ValidateColumns", columns |-> columns, batch |-> <<>>])
         /\ \E ok \in BOOLEAN :
              dbRet' = IF ok THEN ValidateColumns(dbTable, columns)
                       ELSE SinkErr("failed to get table info")
    /\ UNCHANGED <<runVars, importVars, sanVars, cliVars, dbHeaders, dbTable, dbIndexes, dbPc, dbI>>

\* a direct call of CreateIndex
DbCreateIndex ==
    /\ \E column \in IndexColumns \cup Range(dbHeaders) :
         /\ StartCall([op |-> "CreateIndex", columns |-> <<column>>, batch |-> <<>>])
         /\ \E outcome \in SinkOutcomes :
              /\ dbRet' = CreateIndex(column, outcome).ret
              /\ dbIndexes' = CreateIndex(column, outcome).indexes
    /\ UNCHANGED <<runVars, importVars, sanVars, cliVars, dbHeaders, dbTable, dbPc, dbI>>

\* CreateIndexes(db, t, columns) up to its loop: nothing for an empty list,
\* else every column is validated before any index is created
DbCreateIndexes ==
    /\ \E columns \in IndexLists :
         /\ StartCall([op |-> "CreateIndexes", columns |-> columns, batch |-> <<>>])
         /\ IF Len(columns) = 0
            THEN dbRet' = NoErr /\ UNCHANGED <<dbPc, dbI>>
            ELSE \E ok \in BOOLEAN :
                   IF ~ok
                   THEN dbRet' = SinkErr("failed to get table info") /\ UNCHANGED <<dbPc, dbI>>
                   ELSE IF ValidateColumns(dbTable, columns) # NoErr
                   THEN dbRet' = ValidateColumns(dbTable, columns) /\ UNCHANGED <<dbPc, dbI>>
                   ELSE dbRet' = NoErr /\ dbPc' = "create_indexes" /\ dbI' = 1
    /\ UNCHANGED <<runVars, importVars, sanVars, cliVars, dbHeaders, dbTable, dbIndexes>>

\* one iteration of CreateIndexes' loop: CreateIndex on the next column,
\* return on its error
DbCreateIndexesLoop ==
    /\ dbPc = "create_indexes"
    /\ \E outcome \in SinkOutcomes :
         LET r == CreateIndex(dbCall.columns[dbI], outcome) IN
         /\ dbRet' = r.ret
         /\ dbIndexes' = r.indexes
         /\ IF r.ret # NoErr \/ dbI = Len(dbCall.columns)
            THEN dbPc' = "idle" /\ dbI' = 0
            ELSE dbI' = dbI + 1 /\ UNCHANGED dbPc
    /\ UNCHANGED <<runVars, importVars, sanVars, cliVars, dbHeaders, dbTable, dbCall, dbPre, dbAgain, dbCalls>>

DbNext ==
    \/ DbCreateTable
    \/ DbInsertBatch
    \/ DbValidateColumns
    \/ DbCreateIndex
    \/ DbCreateIndexes
    \/ DbCreateIndexesLoop

DbSpec == DbInit /\ [][DbNext]_vars

\* ------------------------------------------- the CLI's run and its tracker
MaxUpdates == 1

\* holders of a mutex: an import goroutine, the render loop, run's goroutine
RenderLoop == 3
MainThread == 4

CliModes == {"plain", "bars", "disabled"}
Events == {"parse_start", "write_start", "parse_complete", "write_complete",
           "parse_error"}
Updates == {"parse_progress", "write_progress"}

\* one run: NewProgressTracker, then ImportConcurrent has started one
\* goroutine per input and waits for them
CliInit ==
    /\ ImportQuiet
    /\ SanQuiet
    /\ DbQuiet
    /\ RunQuiet
    /\ cliMode \in CliModes
    /\ cliFiles \in SUBSET Workers
    /\ wpc = [w \in Workers |-> IF w \in cliFiles THEN "start" ELSE "absent"]
    /\ wev = [w \in Workers |-> "none"]
    /\ werr = [w \in Workers |-> FALSE]
    /\ wn = [w \in Workers |-> 0]
    /\ cliResultsMu = 0 /\ mu = 0 /\ ptMu = 0
    /\ bars = <<>>
    /\ started = FALSE /\ stopCh = FALSE /\ doneCh = FALSE
    /\ rpc = "none"
    /\ mpc = "wait"

\* a progress callback that does not take mu
MuLockAbsent(t) == mu' = mu
\* mu.Lock()
MuLock(t) == mu = 0 /\ mu' = t
\* a progress callback that returns without releasing mu
MuUnlockMissing == mu' = mu
\* defer mu.Unlock()
MuUnlock == mu' = 0
\* pt.mu.Lock()
PtLock(t) == ptMu = 0 /\ ptMu' = t
\* defer pt.mu.Unlock()
PtUnlock == ptMu' = 0

Goto(w, p) == wpc' = [wpc EXCEPT ![w] = p]
\* progressCallback(event, ...) is called
Emit(w, e) == wev' = [wev EXCEPT ![w] = e] /\ Goto(w, "cb_lock")

\* the goroutine starts: progressCallback("parse_start")
WStart(w) ==
    /\ wpc[w] = "start"
    /\ Emit(w, "parse_start")
    /\ UNCHANGED <<runVars, importVars, sanVars, dbVars, cliMode, cliFiles, werr, wn,
                   cliResultsMu, mu, ptMu, bars, started, stopCh, doneCh, rpc, mpc>>

\* progressCallback: mu.Lock()
CbLock(w) ==
    /\ wpc[w] = "cb_lock"
    /\ MuLock(w)
    /\ Goto(w, "cb_body")
    /\ UNCHANGED <<runVars, importVars, sanVars, dbVars, cliMode, cliFiles, wev, werr, wn,
                   cliResultsMu, ptMu, bars, started, stopCh, doneCh, rpc, mpc>>

\* progressCallback: the switch. Without progress bars the event is printed;
\* with them the tracker method is called, which returns at once when the
\* tracker is not enabled
CbBody(w) ==
    /\ wpc[w] = "cb_body"
    /\ Goto(w, IF cliMode = "bars" THEN "pt_lock" ELSE "cb_unlock")
    /\ UNCHANGED <<runVars, importVars, sanVars, dbVars, cliMode, cliFiles, wev, werr, wn,
                   cliResultsMu, mu, ptMu, bars, started, stopCh, doneCh, rpc, mpc>>

\* a tracker method: pt.mu.Lock()
TrackerLock(w) ==
    /\ wpc[w] = "pt_lock"
    /\ PtLock(w)
    /\ Goto(w, "pt_body")
    /\ UNCHANGED <<runVars, importVars, sanVars, dbVars, cliMode, cliFiles, wev, werr, wn,
                   cliResultsMu, mu, bars, started, stopCh, doneCh, rpc, mpc>>

\* pt.findBar(key): index of the first bar with that key, 0 if none
FindBar(bs, key) ==
    IF \E i \in 1..Len(bs) : bs[i].key = key
    THEN CHOOSE i \in 1..Len(bs) :
            bs[i].key = key /\ \A j \in 1..(i - 1) : bs[j].key # key
    ELSE 0

NewBar(phase, w) == [key |-> <<phase, w>>, current |-> 0, done |-> FALSE]

\* the bars after the tracker method of event e for input w
BarsAfter(bs, e, w) ==
    LET phase == CASE e \in {"parse_progress", "parse_complete"} -> "parse"
                   [] e \in {"write_progress", "write_complete"} -> "write"
                   [] OTHER -> "Parse"
        i == FindBar(bs, <<phase, w>>)
    IN  CASE e = "parse_start" -> Append(bs, NewBar("parse", w))
          [] e = "write_start" -> Append(bs, NewBar("write", w))
          [] e \in Updates /\ i > 0 -> [bs EXCEPT ![i].current = wn[w]]
          [] e \in {"parse_complete", "write_complete"} /\ i > 0 ->
                [bs EXCEPT ![i].current = wn[w], ![i].done = TRUE]
          [] e = "parse_error" /\ i > 0 -> [bs EXCEPT ![i].done = TRUE]
          [] OTHER -> bs

\* a tracker method's body: StartParse and StartWrite start the render loop
\* if it is not running and append a bar; the others update the bar found
TrackerBody(w) ==
    /\ wpc[w] = "pt_body"
    /\ bars' = BarsAfter(bars, wev[w], w)
    /\ IF wev[w] \in {"parse_start", "write_start"} /\ ~started
       THEN started' = TRUE /\ rpc' = "select"
       ELSE UNCHANGED <<started, rpc>>
    /\ Goto(w, "pt_unlock")
    /\ UNCHANGED <<runVars, importVars, sanVars, dbVars, cliMode, cliFiles, wev, werr, wn,
                   cliResultsMu, mu, ptMu, stopCh, doneCh, mpc>>

\* a tracker method returns: pt.mu.Unlock(); UpdateParse and UpdateWrite
\* return into importFileStreaming, the others into progressCallback
TrackerUnlock(w) ==
    /\ wpc[w] = "pt_unlock"
    /\ PtUnlock
    /\ IF wev[w] \in Updates
       THEN Goto(w, "stream") /\ wev' = [wev EXCEPT ![w] = "none"]
       ELSE Goto(w, "cb_unlock") /\ UNCHANGED wev
    /\ UNCHANGED <<runVars, importVars, sanVars, dbVars, cliMode, cliFiles, werr, wn,
                   cliResultsMu, mu, bars, started, stopCh, doneCh, rpc, mpc>>

\* progressCallback returns: mu.Unlock(); the goroutine goes on after the call
CbUnlock(w) ==
    /\ wpc[w] = "cb_unlock"
    /\ MuUnlock
    /\ CASE wev[w] = "parse_start" ->
              Goto(w, "open") /\ wev' = [wev EXCEPT ![w] = "none"]
         [] wev[w] = "write_start" ->
              Goto(w, "stream") /\ wev' = [wev EXCEPT ![w] = "none"]
         [] wev[w] = "parse_complete" -> Emit(w, "write_complete")
         [] OTHER ->
              Goto(w, "res_unlock") /\ wev' = [wev EXCEPT ![w] = "none"]
    /\ UNCHANGED <<runVars, importVars, sanVars, dbVars, cliMode, cliFiles, werr, wn,
                   cliResultsMu, ptMu, bars, started, stopCh, doneCh, rpc, mpc>>

\* importFileStreaming up to CreateTable: an error returns, otherwise
\* progressCallback("write_start")
StreamOpen(w) ==
    /\ wpc[w] = "open"
    /\ \E ok \in BOOLEAN :
         IF ok
         THEN Emit(w, "write_start") /\ UNCHANGED werr
         ELSE /\ werr' = [werr EXCEPT ![w] = TRUE]
              /\ Goto(w, "res_lock")
              /\ UNCHANGED wev
    /\ UNCHANGED <<runVars, importVars, sanVars, dbVars, cliMode, cliFiles, wn,
                   cliResultsMu, mu, ptMu, bars, started, stopCh, doneCh, rpc, mpc>>

\* importFileStreaming's loop calls parseProgressCallback or
\* writeProgressCallback: tracker.UpdateParse / UpdateWrite when progress
\* bars are shown, which returns at once when the tracker is not enabled
StreamProgress(w) ==
    /\ wpc[w] = "stream"
    /\ wn[w] < MaxUpdates
    /\ wn' = [wn EXCEPT ![w] = @ + 1]
    /\ \E e \in Updates :
         IF cliMode = "bars"
         THEN wev' = [wev EXCEPT ![w] = e] /\ Goto(w, "pt_lock")
         ELSE UNCHANGED <<wev, wpc>>
    /\ UNCHANGED <<runVars, importVars, sanVars, dbVars, cliMode, cliFiles, werr,
                   cliResultsMu, mu, ptMu, bars, started, stopCh, doneCh, rpc, mpc>>

\* importFileStreaming returns a result or an error
StreamEnd(w) ==
    /\ wpc[w] = "stream"
    /\ \E ok \in BOOLEAN : werr' = [werr EXCEPT ![w] = ~ok]
    /\ Goto(w, "res_lock")
    /\ UNCHANGED <<runVars, importVars, sanVars, dbVars, cliMode, cliFiles, wev, wn,
                   cliResultsMu, mu, ptMu, bars, started, stopCh, doneCh, rpc, mpc>>

\* resultsMu.Lock(), the append, and the first callback of the critical
\* section
ResLock(w) ==
    /\ wpc[w] = "res_lock"
    /\ cliResultsMu = 0
    /\ cliResultsMu' = w
    /\ Emit(w, IF werr[w] THEN "parse_error" ELSE "parse_complete")
    /\ UNCHANGED <<runVars, importVars, sanVars, dbVars, cliMode, cliFiles, werr, wn,
                   mu, ptMu, bars, started, stopCh, doneCh, rpc, mpc>>

\* resultsMu.Unlock() and the deferred importWg.Done()
ResUnlock(w) ==
    /\ wpc[w] = "res_unlock"
    /\ cliResultsMu' = 0
    /\ Goto(w, "done")
    /\ UNCHANGED <<runVars, importVars, sanVars, dbVars, cliMode, cliFiles, wev, werr, wn,
                   mu, ptMu, bars, started, stopCh, doneCh, rpc, mpc>>

Worker(w) ==
    \/ WStart(w) \/ CbLock(w) \/ CbBody(w) \/ TrackerLock(w) \/ TrackerBody(w)
    \/ TrackerUnlock(w) \/ CbUnlock(w) \/ StreamOpen(w) \/ StreamProgress(w)
    \/ StreamEnd(w) \/ ResLock(w) \/ ResUnlock(w)

\* renderLoop: the ticker fires
RenderTick ==
    /\ rpc = "select"
    /\ rpc' = "render_lock"
    /\ UNCHANGED <<runVars, importVars, sanVars, dbVars, cliMode, cliFiles, wpc, wev, werr, wn,
                   cliResultsMu, mu, ptMu, bars, started, stopCh, doneCh, mpc>>

\* render: pt.mu.Lock()
RenderLock ==
    /\ rpc = "render_lock"
    /\ PtLock(RenderLoop)
    /\ rpc' = "render_body"
    /\ UNCHANGED <<runVars, importVars, sanVars, dbVars, cliMode, cliFiles, wpc, wev, werr, wn,
                   cliResultsMu, mu, bars, started, stopCh, doneCh, mpc>>

\* render: every bar is read and drawn
RenderBody ==
    /\ rpc = "render_body"
    /\ rpc' = "render_unlock"
    /\ UNCHANGED <<runVars, importVars, sanVars, dbVars, cliMode, cliFiles, wpc, wev, werr, wn,
                   cliResultsMu, mu, ptMu, bars, started, stopCh, doneCh, mpc>>

\* render returns: pt.mu.Unlock()
RenderUnlock ==
    /\ rpc = "render_unlock"
    /\ PtUnlock
    /\ rpc' = "select"
    /\ UNCHANGED <<runVars, importVars, sanVars, dbVars, cliMode, cliFiles, wpc, wev, werr, wn,
                   cliResultsMu, mu, bars, started, stopCh, doneCh, mpc>>

\* renderLoop: <-pt.stopCh, return, deferred close(pt.doneCh)
RenderExit ==
    /\ rpc = "select"
    /\ stopCh
    /\ rpc' = "exited"
    /\ doneCh' = TRUE
    /\ UNCHANGED <<runVars, importVars, sanVars, dbVars, cliMode, cliFiles, wpc, wev, werr, wn,
                   cliResultsMu, mu, ptMu, bars, started, stopCh, mpc>>

\* importWg.Wait() of the CLI's run
CliWgWait == \A w \in cliFiles : wpc[w] = "done"

\* ImportConcurrent returns to run
MainReturn ==
    /\ mpc = "wait"
    /\ CliWgWait
    /\ mpc' = "stop"
    /\ UNCHANGED <<runVars, importVars, sanVars, dbVars, cliMode, cliFiles, wpc, wev, werr, wn,
                   cliResultsMu, mu, ptMu, bars, started, stopCh, doneCh, rpc>>

\* tracker.Stop(): nothing to do unless enabled and started
StopEnter ==
    /\ mpc = "stop"
    /\ mpc' = IF cliMode = "bars" /\ started THEN "stop_lock" ELSE "returned"
    /\ UNCHANGED <<runVars, importVars, sanVars, dbVars, cliMode, cliFiles, wpc, wev, werr, wn,
                   cliResultsMu, mu, ptMu, bars, started, stopCh, doneCh, rpc>>

\* Stop's final render: pt.mu.Lock()
StopLock ==
    /\ mpc = "stop_lock"
    /\ PtLock(MainThread)
    /\ mpc' = "stop_body"
    /\ UNCHANGED <<runVars, importVars, sanVars, dbVars, cliMode, cliFiles, wpc, wev, werr, wn,
                   cliResultsMu, mu, bars, started, stopCh, doneCh, rpc>>

\* Stop's final render: every bar is read and drawn
StopBody ==
    /\ mpc = "stop_body"
    /\ mpc' = "stop_unlock"
    /\ UNCHANGED <<runVars, importVars, sanVars, dbVars, cliMode, cliFiles, wpc, wev, werr, wn,
                   cliResultsMu, mu, ptMu, bars, started, stopCh, doneCh, rpc>>

\* Stop's final render returns, then close(pt.stopCh)
StopClose ==
    /\ mpc = "stop_unlock"
    /\ PtUnlock
    /\ stopCh' = TRUE
    /\ mpc' = "stop_wait"
    /\ UNCHANGED <<runVars, importVars, sanVars, dbVars, cliMode, cliFiles, wpc, wev, werr, wn,
                   cliResultsMu, mu, bars, started, doneCh, rpc>>

\* a Stop that returns without receiving from pt.doneCh
StopWithoutWait ==
    /\ mpc = "stop_wait"
    /\ mpc' = "returned"
    /\ UNCHANGED <<runVars, importVars, sanVars, dbVars, cliMode, cliFiles, wpc, wev, werr, wn,
                   cliResultsMu, mu, ptMu, bars, started, stopCh, doneCh, rpc>>

\* Stop: <-pt.doneCh
StopWait ==
    /\ mpc = "stop_wait"
    /\ doneCh
    /\ mpc' = "returned"
    /\ UNCHANGED <<runVars, importVars, sanVars, dbVars, cliMode, cliFiles, wpc, wev, werr, wn,
                   cliResultsMu, mu, ptMu, bars, started, stopCh, doneCh, rpc>>

\* results: the Results of the inputs whose import succeeded
CliResults == {w \in cliFiles : wpc[w] = "done" /\ ~werr[w]}
\* err != nil: errors.Join of the errors of the failed imports
CliErr == \E w \in cliFiles : werr[w]
\* a run that gives up as soon as one import failed
SomeImportFailed == CliErr
\* len(results) == 0 && err != nil
AllImportsFailed == CliResults = {} /\ CliErr

\* run, after tracker.Stop(): return "all imports failed", or go on to
\* execute the queries
RunDecide ==
    /\ mpc = "returned"
    /\ mpc' = IF AllImportsFailed THEN "all_failed" ELSE "queries"
    /\ UNCHANGED <<runVars, importVars, sanVars, dbVars, cliMode, cliFiles, wpc, wev, werr, wn,
                   cliResultsMu, mu, ptMu, bars, started, stopCh, doneCh, rpc>>

RenderStep == RenderLock \/ RenderBody \/ RenderUnlock
MainStep ==
    \/ MainReturn \/ StopEnter \/ StopLock \/ StopBody \/ StopClose \/ StopWait
    \/ RunDecide

CliNext ==
    \/ \E w \in Workers : Worker(w)
    \/ RenderTick \/ RenderStep \/ RenderExit
    \/ MainStep

CliSpec == CliInit /\ [][CliNext]_vars

\* Fair scheduling: every goroutine that can take a step infinitely often
\* takes one (a blocked sync.Mutex waiter is handed the lock: starvation
\* mode), and a select with a closed stopCh eventually picks that case. The
\* ticker is under no obligation to fire.
CliFair ==
    /\ CliSpec
    /\ \A w \in Workers : SF_vars(Worker(w))
    /\ SF_vars(RenderStep)
    /\ SF_vars(RenderExit)
    /\ SF_vars(MainStep)

\* ---------------------------------------------------------------- run
\* an input file is a path or stdin ("-" or ""); an output file is a path
\* or stdout ("")
InputKinds == {"file", "stdin"}
OutputKinds == {"file", "stdout"}
Configs ==
    [inputs : UNION {[1..k -> InputKinds] : k \in 0..MaxInputs},
     queries : 0..MaxQueries,
     outputs : UNION {[1..k -> OutputKinds] : k \in 0..MaxQueries},
     DBPath : {"", "user"}]

HasStdin(c) == \E i \in 1..Len(c.inputs) : c.inputs[i] = "stdin"
\* a Validate that accepts any number of queries with stdin
ValidateAllowsStdin(c) ==
    IF Len(c.inputs) = 0 /\ c.queries = 0 THEN "must specify at least one input file or a query"
    ELSE IF Len(c.outputs) > 0 /\ c.queries > 0 /\ Len(c.outputs) # c.queries
    THEN "number of output files must match number of queries"
    ELSE Nil
\* Config.Validate: the error it returns, Nil if none
Validate(c) ==
    IF Len(c.inputs) = 0 /\ c.queries = 0 THEN "must specify at least one input file or a query"
    ELSE IF HasStdin(c) /\ c.queries > 1 THEN "multiple queries not supported with stdin input"
    ELSE IF Len(c.outputs) > 0 /\ c.queries > 0 /\ Len(c.outputs) # c.queries
    THEN "number of output files must match number of queries"
    ELSE Nil

RunInit ==
    /\ ImportQuiet
    /\ SanQuiet
    /\ DbQuiet
    /\ CliQuiet
    /\ runCfg \in Configs
    /\ runPc = "validate"
    /\ runErr = Nil
    /\ runFiles \in [temp : {FALSE}, user : BOOLEAN]
    /\ runDb = NoDb
    /\ runDid = {}
    /\ removeFailed = FALSE
    /\ qpc = [i \in 1..MaxQueries |-> "none"]
    /\ qStarted = <<>>
    /\ queryErrs = <<>>

\* run returns err at once: no deferred function is registered yet
ReturnEarly(err) == runErr' = err /\ runPc' = "returned"

\* an error return that skips the deferred function
ReturnWithoutDefer(err) == runErr' = err /\ runPc' = "returned"
\* run returns err after the defer statement: the deferred function runs
ReturnLate(err) == runErr' = err /\ runPc' = "deferred"

\* run: if err := cfg.Validate(); err != nil { return err }
RunValidate ==
    /\ runPc = "validate"
    /\ IF Validate(runCfg) # Nil
       THEN ReturnEarly(Validate(runCfg))
       ELSE runPc' = "open" /\ UNCHANGED runErr
    /\ UNCHANGED <<importVars, sanVars, dbVars, cliVars, runCfg, runFiles, runDb, runDid,
                   removeFailed, qpc, qStarted, queryErrs>>

\* database.Open: with an empty path os.CreateTemp makes the file, and a
\* failed sql.Open removes it again (os.Remove may fail, and its result is
\* not looked at); with a path the directory is made and the file is left to
\* SQLite
RunOpen ==
    /\ runPc = "open"
    /\ runDid' = runDid \cup {"open"}
    /\ IF runCfg.DBPath = ""
       THEN \E outcome \in {"failed to create temporary database",
                            "failed to open database", "ok"} :
              IF outcome = "ok"
              THEN /\ runFiles' = [runFiles EXCEPT !.temp = TRUE]
                   /\ runDb' = [open |-> TRUE, path |-> "temp", ShouldCleanup |-> TRUE]
                   /\ runPc' = "import"
                   /\ UNCHANGED <<runErr, removeFailed>>
              ELSE /\ ReturnEarly(outcome)
                   /\ IF outcome = "failed to open database"
                      THEN \E removed \in BOOLEAN :
                             /\ runFiles' = [runFiles EXCEPT !.temp = ~removed]
                             /\ removeFailed' = ~removed
                      ELSE UNCHANGED <<runFiles, removeFailed>>
                   /\ UNCHANGED runDb
       ELSE \E outcome \in {"failed to create database directory",
                            "failed to open database", "ok"} :
              /\ IF outcome = "ok"
                 THEN /\ runDb' = [open |-> TRUE, path |-> "user", ShouldCleanup |-> FALSE]
                      /\ runPc' = "import"
                      /\ UNCHANGED runErr
                 ELSE ReturnEarly(outcome) /\ UNCHANGED runDb
              /\ UNCHANGED <<runFiles, removeFailed>>
    /\ UNCHANGED <<importVars, sanVars, dbVars, cliVars, runCfg, qpc, qStarted, queryErrs>>

\* the first statement on the handle makes SQLite create the file
FilesAfterUse == IF runDb.path = "user" THEN [runFiles EXCEPT !.user = TRUE] ELSE runFiles

\* run: the import block, skipped without input files; it returns "all
\* imports failed" when ImportConcurrent gave no result and an error
RunImport ==
    /\ runPc = "import"
    /\ IF Len(runCfg.inputs) = 0
       THEN /\ runPc' = "queries"
            /\ UNCHANGED <<runErr, runDid, runFiles>>
       ELSE /\ runDid' = runDid \cup {"import"}
            /\ runFiles' = FilesAfterUse
            /\ \E allFailed \in BOOLEAN :
                 IF allFailed
                 THEN ReturnLate("all imports failed")
                 ELSE runPc' = "queries" /\ UNCHANGED runErr
    /\ UNCHANGED <<importVars, sanVars, dbVars, cliVars, runCfg, runDb, removeFailed, qpc,
                   qStarted, queryErrs>>

\* run's deferred function: db.DB.Close(), then db.Cleanup() when
\* ShouldCleanup; a failed os.Remove is printed as a warning
RunDeferred ==
    /\ runPc = "deferred"
    /\ runDb' = [runDb EXCEPT !.open = FALSE]
    /\ IF runDb.ShouldCleanup
       THEN \E removed \in BOOLEAN :
              /\ runFiles' = IF removed THEN [runFiles EXCEPT !.temp = FALSE] ELSE runFiles
              /\ removeFailed' = ~removed
       ELSE UNCHANGED <<runFiles, removeFailed>>
    /\ runPc' = "returned"
    /\ UNCHANGED <<importVars, sanVars, dbVars, cliVars, runCfg, runErr, runDid, qpc,
                   qStarted, queryErrs>>

\* run: outputFiles, all stdout when no output file was given
OutputFiles(c) == IF Len(c.outputs) = 0 THEN [i \in 1..c.queries |-> "stdout"] ELSE c.outputs
HasStdout(c) == \E i \in 1..Len(OutputFiles(c)) : OutputFiles(c)[i] = "stdout"
\* a run that takes the sequential branch only for a single query
SingleQueryOnly(c) == c.queries = 1
\* run: if hasStdout || len(cfg.SQLQueries) == 1
Sequential(c) == HasStdout(c) \/ c.queries = 1
QueryIds == 1..runCfg.queries

\* run: the query block, skipped without queries; the concurrent branch
\* starts one goroutine per query
RunQueries ==
    /\ runPc = "queries"
    /\ IF runCfg.queries = 0
       THEN runPc' = "deferred" /\ UNCHANGED qpc
       ELSE IF Sequential(runCfg)
       THEN runPc' = "seq" /\ UNCHANGED qpc
       ELSE /\ runPc' = "conc"
            /\ qpc' = [i \in 1..MaxQueries |-> IF i \in QueryIds THEN "spawned" ELSE "none"]
    /\ UNCHANGED <<importVars, sanVars, dbVars, cliVars, runCfg, runErr, runFiles, runDb,
                   runDid, removeFailed, qStarted, queryErrs>>

\* the sequential loop reaches query i and calls exporter.Execute, or is
\* past the last query and run returns nil
SeqStart ==
    /\ runPc = "seq"
    /\ LET i == Len(qStarted) + 1 IN
         IF i \in QueryIds
         THEN /\ qpc' = [qpc EXCEPT ![i] = "running"]
              /\ qStarted' = Append(qStarted, i)
              /\ runDid' = runDid \cup {"query"}
              /\ runFiles' = FilesAfterUse
              /\ runPc' = "seq_exec"
         ELSE /\ runPc' = "deferred"
              /\ UNCHANGED <<qpc, qStarted, runDid, runFiles>>
    /\ UNCHANGED <<importVars, sanVars, dbVars, cliVars, runCfg, runErr, runDb,
                   removeFailed, queryErrs>>

\* exporter.Execute returns in the sequential loop: an error ends run
SeqFinish ==
    /\ runPc = "seq_exec"
    /\ LET i == Len(qStarted) IN
         \E ok \in BOOLEAN :
           IF ok
           THEN /\ qpc' = [qpc EXCEPT ![i] = "ok"]
                /\ runPc' = "seq"
                /\ UNCHANGED runErr
           ELSE /\ qpc' = [qpc EXCEPT ![i] = "failed"]
                /\ ReturnLate("failed to execute query")
    /\ UNCHANGED <<importVars, sanVars, dbVars, cliVars, runCfg, runFiles, runDb, runDid,
                   removeFailed, qStarted, queryErrs>>

\* a query goroutine calls exporter.Execute
ConcStart(i) ==
    /\ runPc = "conc"
    /\ qpc[i] = "spawned"
    /\ qpc' = [qpc EXCEPT ![i] = "running"]
    /\ qStarted' = Append(qStarted, i)
    /\ runDid' = runDid \cup {"query"}
    /\ runFiles' = FilesAfterUse
    /\ UNCHANGED <<importVars, sanVars, dbVars, cliVars, runCfg, runPc, runErr, runDb,
                   removeFailed, queryErrs>>

\* exporter.Execute returns in a query goroutine: an error is appended to
\* queryErrs under queryMu
ConcFinish(i) ==
    /\ runPc = "conc"
    /\ qpc[i] = "running"
    /\ \E ok \in BOOLEAN :
         IF ok
         THEN qpc' = [qpc EXCEPT ![i] = "ok"] /\ UNCHANGED queryErrs
         ELSE qpc' = [qpc EXCEPT ![i] = "failed"] /\ queryErrs' = Append(queryErrs, i)
    /\ UNCHANGED <<importVars, sanVars, dbVars, cliVars, runCfg, runPc, runErr, runFiles,
                   runDb, runDid, removeFailed, qStarted>>

\* queryWg.Wait(): every query goroutine has called Done
QueryWgWait == \A i \in QueryIds : qpc[i] \in {"ok", "failed"}

\* run after queryWg.Wait(): an error when queryErrs is not empty
ConcWait ==
    /\ runPc = "conc"
    /\ QueryWgWait
    /\ IF Len(queryErrs) > 0
       THEN ReturnLate("query execution errors")
       ELSE runPc' = "deferred" /\ UNCHANGED runErr
    /\ UNCHANGED <<importVars, sanVars, dbVars, cliVars, runCfg, runFiles, runDb, runDid,
                   removeFailed, qpc, qStarted, queryErrs>>

RunNext ==
    \/ RunValidate
    \/ RunOpen
    \/ RunImport
    \/ RunQueries
    \/ SeqStart
    \/ SeqFinish
    \/ \E i \in 1..MaxQueries : ConcStart(i)
    \/ \E i \in 1..MaxQueries : ConcFinish(i)
    \/ ConcWait
    \/ RunDeferred

RunSpec == RunInit /\ [][RunNext]_vars

\* =================================================================== claims
DistinctTables ==
    \A i, j \in Active : inputs[i].TableName = inputs[j].TableName => i = j
FileRecs(w) == fs[inputs[w].FilePath].recs
\* the data records of the source of input w, header line excluded
DataRecs(w) ==
    LET recs == FileRecs(w)
        first == IF inputs[w].HasHeader THEN 2 ELSE 1
    IN  [i \in 1..(Len(recs) - first + 1) |-> recs[i + first - 1].fields]
\* the header the source of input w defines
SourceHeaders(w) ==
    IF inputs[w].HasHeader THEN FileRecs(w)[1].fields
    ELSE SynthHeaders(Len(FileRecs(w)[1].fields))
WellFormed(w) ==
    /\ fs[inputs[w].FilePath].exists
    /\ Len(FileRecs(w)) >= 1
    /\ \A i \in 1..Len(FileRecs(w)) : ~FileRecs(w)[i].bad
TableOf(w) == tables[inputs[w].TableName]
InInsertBatch(w) == pc[w] \in {"ib_begin", "ib_prepare", "ib_exec", "ib_commit"}

\* C1: in the streaming import the batch buffer never holds more than
\* BatchSize rows, and whenever the next record is about to be read it holds
\* fewer than BatchSize rows, all of them read and not yet flushed (the
\* buffer was emptied by the flush before).
C1_StreamingBufferBounded ==
    mode = "streaming" =>
      \A w \in Active :
        /\ Len(batch[w]) <= BatchSize
        /\ pc[w] = "s_read" =>
             /\ Len(batch[w]) < BatchSize
             /\ Len(batch[w]) = rowCount[w] - rowsWritten[w]

\* C1 witness: a full batch was flushed and cleared and reading went on
C1_Witness ==
    /\ mode = "streaming"
    /\ \E w \in Active :
         pc[w] = "s_read" /\ rowsWritten[w] >= BatchSize /\ Len(batch[w]) = 1

\* C2 (as claimed): Import and the ImportConcurrent built on ParseFile and
\* WriteToDatabase never hold more than one batch of a file's rows in memory.
C2_OneBatchInMemory ==
    mode \in {"import", "staged"} =>
      \A w \in Active : Len(parsed[w].Rows) <= BatchSize

\* C3 (as claimed): after the streaming ImportConcurrent returns for
\* well-formed sources with pairwise distinct table names, every table of an
\* error-free run exists and every Result's RowCount equals the number of
\* data rows of its source and the number of rows in its table.
C3_CountsMatchSource ==
    (/\ retval.done /\ mode = "streaming" /\ DistinctTables
     /\ \A w \in Active : WellFormed(w)) =>
      /\ retval.err.isNil => \A w \in Active : TableOf(w).exists
      /\ \A w \in Active : ret[w].kind = "ok" =>
           /\ \E k \in 1..Len(retval.results) :
                retval.results[k] = [TableName |-> inputs[w].TableName,
                                     RowCount |-> Len(DataRecs(w))]
           /\ Len(TableOf(w).rows) = Len(DataRecs(w))

\* C4: every step of InsertBatch leaves the committed tables unchanged,
\* except a successful commit, which adds exactly the rows of the batch, in
\* order and padded to header width, to the destination table.
C4_InsertBatchAtomic ==
    [][\A w \in Workers :
         (InInsertBatch(w) /\ (pc'[w] # pc[w] \/ ibIdx'[w] # ibIdx[w])) =>
            IF pc'[w] = "ib_ret" /\ ibErr'[w] = Nil /\ Len(batch[w]) > 0
            THEN tables' = [tables EXCEPT ![inputs[w].TableName].rows =
                              @ \o [k \in 1..Len(batch[w]) |->
                                      RowFor(TableOf(w).cols, SanitizeAll(headers[w]),
                                             PadRow(headers[w], batch[w][k]))]]
            ELSE tables' = tables]_vars

\* C4 witness: a later batch failed at commit after all of its rows were
\* executed; the table holds the rows of the earlier batches only
C4_Witness ==
    \E w \in Active :
       /\ pc[w] = "ib_ret" /\ ibErr[w] = "failed to commit transaction"
       /\ rowsWritten[w] > 0
       /\ DistinctTables
       /\ Len(TableOf(w).rows) = rowsWritten[w]

\* C5 (as claimed): when the streaming ImportConcurrent returns and some file
\* failed, every other file whose own steps succeeded has its Result in the
\* list and its table holds all data rows of its source.
C5_FailureIsolation ==
    (retval.done /\ mode = "streaming" /\ DistinctTables) =>
      \A w \in Active :
        (ret[w].kind = "ok" /\ \E v \in Active \ {w} : ret[v].kind = "err") =>
           /\ \E k \in 1..Len(retval.results) :
                retval.results[k].TableName = inputs[w].TableName
           /\ TableOf(w).rows = DataRecs(w)

\* C6: when ImportConcurrent returns, every input has contributed exactly
\* one outcome: results and joined errors add up to N, every failed file has
\* exactly one error carrying its path, the error is nil iff no file failed,
\* and if all failed the results are empty and the error is not nil.
C6_OneOutcomePerInput ==
    (retval.done /\ mode \in {"streaming", "staged"}) =>
      /\ Len(retval.results) + Len(retval.err.parts) = N
      /\ Len(retval.results) = Cardinality({w \in Active : ret[w].kind = "ok"})
      /\ \A w \in Active : ret[w].kind = "err" =>
           Cardinality({k \in 1..Len(retval.err.parts) :
                          retval.err.parts[k] =
                            [path |-> inputs[w].FilePath, err |-> ret[w].err]}) = 1
      /\ retval.err.isNil <=> (\A w \in Active : ret[w].kind = "ok")
      /\ (N > 0 /\ \A w \in Active : ret[w].kind = "err") =>
           (retval.results = <<>> /\ ~retval.err.isNil)

\* C6 witness: a call with two inputs returned one Result and one error
C6_Witness ==
    /\ retval.done /\ N = 2
    /\ Len(retval.results) = 1 /\ Len(retval.err.parts) = 1

InFlight(t) == {w \in Active : txOpen[w] /\ Inp(w).TableName = t}

\* C7 (as claimed): for every list of FileInputs, no two InsertBatch
\* transactions are in flight against the same table at the same time.
C7_OneTxPerTable ==
    \A t \in TableNames : Cardinality(InFlight(t)) <= 1

\* C7 (amended): when the FileInputs have pairwise distinct table names, no
\* two InsertBatch transactions are in flight against the same table.
C7_OneTxPerDistinctTable ==
    DistinctTables => \A t \in TableNames : Cardinality(InFlight(t)) <= 1

\* C7 witness: two workers have a transaction in flight at the same time,
\* each against its own table
C7_Witness ==
    /\ DistinctTables
    /\ \E v, w \in Active : v # w /\ txOpen[v] /\ txOpen[w]

CreatedBeforeInsert ==
    \A w \in Active : (InInsertBatch(w) \/ pc[w] = "ib_ret") => ctDone[w]
OnlyOwnRowsAndColumns(w) ==
    /\ TableOf(w).exists
    /\ TableOf(w).cols = SanitizeAll(SourceHeaders(w))
    /\ \A k \in 1..Len(TableOf(w).rows) :
         \E i \in 1..Len(DataRecs(w)) : TableOf(w).rows[k] = DataRecs(w)[i]

\* C8 (as claimed): for each file CreateTable completes before its first
\* InsertBatch, and once its import has succeeded its table holds only rows
\* of that file under exactly the columns derived from its header.
C8_FreshTable ==
    /\ CreatedBeforeInsert
    /\ \A w \in Active : ret[w].kind = "ok" => OnlyOwnRowsAndColumns(w)

\* C8 (amended): the same, for a file whose table name no other input of
\* the call has.
C8_FreshTableDistinct ==
    /\ CreatedBeforeInsert
    /\ \A w \in Active :
         (ret[w].kind = "ok"
          /\ \A v \in Active \ {w} : inputs[v].TableName # inputs[w].TableName) =>
            OnlyOwnRowsAndColumns(w)

\* C8 witness: a headerless file was imported over a table of an earlier
\* run that had the same columns and a row (the other table is still old)
C8_Witness ==
    /\ N = 1 /\ ~inputs[1].HasHeader /\ ret[1].kind = "ok"
    /\ Len(TableOf(1).rows) > 0
    /\ tables["t2"] = OldTable

\* C9 (as claimed): a headerless file of k records gets the columns
\* col1..colN, RowCount = k and k stored rows, whichever entry point
\* imports it.
C9_HeaderlessFirstRowKept ==
    \A w \in Active :
      (~inputs[w].HasHeader /\ ret[w].kind = "ok") =>
         /\ headers[w] = SynthHeaders(Len(FileRecs(w)[1].fields))
         /\ ret[w].RowCount = Len(FileRecs(w))
         /\ N = 1 => Len(TableOf(w).rows) = Len(FileRecs(w))

\* C10 (as claimed): when a record in the middle of a file cannot be
\* tokenized, the streaming import of the file fails and no row of the file
\* is in its table afterwards.
C10_NoPartialImport ==
    mode = "streaming" =>
      \A w \in Active :
        (ret[w].kind = "err" /\ ret[w].err = "failed to read row") =>
           \A k \in 1..Len(TableOf(w).rows) :
              \A i \in 1..Len(FileRecs(w)) :
                 TableOf(w).rows[k] # FileRecs(w)[i].fields

CeilDiv(n, b) == (n + b - 1) \div b
\* the table of input w is written by no other input of the call
OwnTable(w) == \A v \in Active \ {w} : inputs[v].TableName # inputs[w].TableName

\* C11 (as claimed): an import that succeeds on a file with n data rows has
\* begun exactly ceil(n / BatchSize) transactions, the k-th for the rows
\* (k-1)*BatchSize+1 .. min(k*BatchSize, n) of the file in file order (so
\* none for an empty batch), and its table holds n rows.
C11_BatchesPartitionFile ==
    \A w \in Active :
      ret[w].kind = "ok" =>
        LET n == Len(DataRecs(w)) IN
          /\ Len(txLog[w]) = CeilDiv(n, BatchSize)
          /\ \A k \in 1..Len(txLog[w]) :
               txLog[w][k] = SubSeq(DataRecs(w), (k - 1) * BatchSize + 1,
                                    Min(k * BatchSize, n))
          /\ OwnTable(w) => Len(TableOf(w).rows) = n

AllTerminated ==
    /\ \A w \in Active : pc[w] = "done"
    /\ \A w \in Workers : ~txOpen[w]
    /\ writer = 0 /\ resultsMu = 0

\* C12: ImportConcurrent has returned only when every worker is past its
\* last statement with no transaction open and no mutex held, and from then
\* on no worker takes a step (progress callbacks are calls made by worker
\* steps), the sink does not change and nothing is appended to results or
\* errs.
C12_ReturnAfterAllWorkers ==
    /\ []((retval.done /\ mode # "import") => AllTerminated)
    /\ [][(retval.done /\ mode # "import") =>
            /\ pc' = pc
            /\ <<tables, txPending, txOpen, writer>>' = <<tables, txPending, txOpen, writer>>
            /\ results' = results /\ errs' = errs]_vars

\* C12 witness: a call with two inputs has returned after both workers wrote
\* rows to the sink
C12_Witness ==
    /\ retval.done /\ N = 2 /\ mode # "import"
    /\ \A w \in Active : Len(txLog[w]) > 0 /\ ret[w].kind = "ok"

\* C18: SanitizeColumnName is idempotent and deterministic: a call on a value
\* it returned returns that value, and two calls on the same argument return
\* the same value.
C18_SanitizeIdempotent ==
    \A i, j \in 1..Len(sanLog) :
       /\ sanLog[j].arg = sanLog[i].out => sanLog[j].out = sanLog[j].arg
       /\ sanLog[j].arg = sanLog[i].arg => sanLog[j].out = sanLog[i].out

\* C18 witness: a name that sanitization changes was sanitized twice, and
\* its result was sanitized again
C18_Witness ==
    /\ Len(sanLog) = 3
    /\ sanLog[1].arg = sanName /\ sanLog[1].out # sanName
    /\ sanLog[2].arg = sanName
    /\ sanLog[3].arg = sanLog[1].out

\* the identifier the specification prescribes for a raw name
Allowed == LowerCase \cup UpperCase \cup Digits \cup {"_"}
Trimmed(x) ==
    LET keep == {i \in 1..Len(x) : x[i] \notin WhiteSpace} IN
    IF keep = {} THEN <<>>
    ELSE LET lo == CHOOSE i \in keep : \A k \in keep : i <= k
             hi == CHOOSE i \in keep : \A k \in keep : i >= k
         IN  [i \in 1..(hi - lo + 1) |-> x[lo + i - 1]]
Replaced(x) == [i \in 1..Len(x) |-> IF x[i] \in Allowed THEN x[i] ELSE "_"]
Prescribed(x) ==
    IF Trimmed(x) = <<>> THEN <<"u","n","n","a","m","e","d">>
    ELSE IF Replaced(Trimmed(x))[1] \in Digits
         THEN <<"c","o","l","_">> \o Replaced(Trimmed(x))
         ELSE Replaced(Trimmed(x))

\* C19: every call of SanitizeColumnName returns 'unnamed' for a name that
\* is empty after trimming, else the trimmed name with every character
\* outside [A-Za-z0-9_] replaced by '_' and prefixed with 'col_' if that
\* starts with a digit; the value returned is never empty, has only
\* characters of [A-Za-z0-9_] and does not start with a digit.
C19_SanitizeAsPrescribed ==
    \A i \in 1..Len(sanLog) :
       LET out == sanLog[i].out IN
       /\ out = Prescribed(sanLog[i].arg)
       /\ out # <<>>
       /\ \A k \in 1..Len(out) : out[k] \in Allowed
       /\ out[1] \notin Digits

\* C19 witness: a name with surrounding whitespace, a leading digit and a
\* character outside [A-Za-z0-9_] was sanitized
C19_Witness ==
    \E i \in 1..Len(sanLog) :
       /\ sanLog[i].arg = <<" ", "7", "-">>
       /\ sanLog[i].out = <<"c","o","l","_","7","_">>

\* the requested columns whose sanitized name the catalog of tbl does not
\* list (SQL identifiers are compared without regard to case)
AbsentColumns(tbl, columns) ==
    SelectSeq(columns,
              LAMBDA c : \A k \in 1..Len(tbl.cols) :
                            ToLower(tbl.cols[k]) # ToLower(SanitizeColumnName(c)))
Returned(op) == dbPc = "idle" /\ dbCall.op = op

\* C15: a CreateIndexes call with at least one column absent from the
\* catalog never reaches its loop; it returns one error, which lists
\* exactly the absent columns (unless the catalog query itself failed),
\* and the indexes of the database are what they were before the call.
C15_CreateIndexesFailsAtomically ==
    (dbCall.op = "CreateIndexes"
     /\ AbsentColumns(dbPre.table, dbCall.columns) # <<>>) =>
       /\ dbPc = "idle"
       /\ dbIndexes = dbPre.indexes
       /\ dbRet.kind \in {"columns not found", "failed to get table info"}
       /\ dbRet.kind = "columns not found" =>
            dbRet.missing = AbsentColumns(dbPre.table, dbCall.columns)

\* C15 witness: of two requested columns one exists and one does not; the
\* error names the absent one only
C15_Witness ==
    /\ Returned("CreateIndexes")
    /\ Len(dbCall.columns) = 2 /\ dbPre.table.exists
    /\ dbRet.kind = "columns not found" /\ Len(dbRet.missing) = 1
    /\ dbCalls > 1

NamedLike(ixs, name) == {ix \in ixs : ToLower(ix.name) = ToLower(name)}

\* C16: after a CreateIndexes call that returned nil every index that
\* existed before is still there unchanged, each requested column has
\* exactly one index named idx_<table>_<sanitized column>, and every index
\* the call added is that index on that column of the table; a call that
\* repeats the successful call before it leaves the indexes unchanged and
\* returns no error of its own (only a failing sink call can make it fail).
C16_CreateIndexesIdempotent ==
    Returned("CreateIndexes") =>
      /\ dbRet = NoErr =>
           /\ dbPre.indexes \subseteq dbIndexes
           /\ \A i \in 1..Len(dbCall.columns) :
                Cardinality(NamedLike(dbIndexes,
                    IndexName(TableT, SanitizeColumnName(dbCall.columns[i])))) = 1
           /\ \A ix \in dbIndexes \ dbPre.indexes :
                \E i \in 1..Len(dbCall.columns) :
                   ix = [name |-> IndexName(TableT, SanitizeColumnName(dbCall.columns[i])),
                         table |-> TableT,
                         column |-> SanitizeColumnName(dbCall.columns[i])]
      /\ dbAgain =>
           /\ dbIndexes = dbPre.indexes
           /\ dbRet.kind \in {"nil", "failed to get table info", "failed to create index"}

\* C16 witness: CreateIndexes on two columns succeeded twice in a row, one
\* of the names being that of an index someone else had created
C16_Witness ==
    /\ Returned("CreateIndexes") /\ dbAgain /\ dbRet = NoErr
    /\ Len(dbCall.columns) = 2
    /\ ForeignIndex \in dbIndexes
    /\ Cardinality(dbIndexes) = 2

\* CreateTable(t, dbHeaders) had succeeded when the last call started
CreatedBefore ==
    dbPre.table.exists /\ dbPre.table.cols = SanitizeAll(dbHeaders)

\* C17: CreateTable creates the column SanitizeColumnName(h) for every
\* header h, in header order; once it has succeeded ValidateColumns(t, [h])
\* finds no column missing, an index CreateIndex(t, h) creates is on the
\* column created for h, and InsertBatch stores the value given for h in
\* that column.
C17_SameIdentifierEverywhere ==
    \A i \in 1..Len(dbHeaders) :
      /\ (Returned("CreateTable") /\ dbRet = NoErr) =>
            dbTable.cols[i] = SanitizeColumnName(dbHeaders[i])
      /\ (Returned("ValidateColumns") /\ CreatedBefore
          /\ dbCall.columns = <<dbHeaders[i]>>) =>
            dbRet.kind # "columns not found"
      /\ (Returned("CreateIndex") /\ CreatedBefore
          /\ dbCall.columns = <<dbHeaders[i]>>) =>
            /\ dbRet.kind # "columns not found"
            /\ \A ix \in dbIndexes \ dbPre.indexes :
                 ix.table = TableT /\ ix.column = dbPre.table.cols[i]
      /\ (Returned("InsertBatch") /\ dbRet = NoErr) =>
            \A k \in 1..Len(dbCall.batch) :
               i <= Len(dbCall.batch[k]) =>
                  dbTable.rows[Len(dbPre.table.rows) + k][i] = dbCall.batch[k][i]

\* C17 witness: after CreateTable with the header 'a b' an index was
\* created for 'a b' on the column a_b
C17_Witness ==
    /\ Returned("CreateIndex") /\ CreatedBefore /\ dbRet = NoErr
    /\ dbCall.columns = << <<"a", " ", "b">> >>
    /\ \E ix \in dbIndexes \ dbPre.indexes : ix.column = <<"a", "_", "b">>

\* C20: an InsertBatch that returned nil has added one stored row per row
\* of the batch, in order, each with exactly one value per header: R[i]
\* where the row has an i-th field, the empty string where it has none;
\* fields beyond the header width are not stored.
C20_PadAndTruncate ==
    (Returned("InsertBatch") /\ dbRet = NoErr) =>
      /\ Len(dbTable.rows) = Len(dbPre.table.rows) + Len(dbCall.batch)
      /\ \A k \in 1..Len(dbCall.batch) :
           LET R == dbCall.batch[k]
               S == dbTable.rows[Len(dbPre.table.rows) + k]
           IN  /\ Len(S) = Len(dbHeaders)
               /\ \A i \in 1..Len(dbHeaders) :
                    S[i] = IF i <= Len(R) THEN R[i] ELSE <<>>

\* C20 witness: a batch with a row shorter than the header list and a row
\* longer than it was committed
C20_Witness ==
    /\ Returned("InsertBatch") /\ dbRet = NoErr
    /\ \E k \in 1..Len(dbCall.batch) : Len(dbCall.batch[k]) < Len(dbHeaders)
    /\ \E k \in 1..Len(dbCall.batch) : Len(dbCall.batch[k]) > Len(dbHeaders)

\* the outcome of an input's goroutine
Outcome(w) ==
    IF wpc[w] # "done" THEN "Running" ELSE IF werr[w] THEN "Failed" ELSE "Done"
\* resultsMu is taken before mu, and mu before pt.mu: nobody waits for
\* resultsMu holding mu or pt.mu, nor for mu holding pt.mu
NestingOrder ==
    /\ \A w \in Workers :
         /\ wpc[w] = "res_lock" => mu # w /\ ptMu # w
         /\ wpc[w] = "cb_lock" => ptMu # w
    /\ ptMu = RenderLoop => rpc \in {"render_body", "render_unlock"}
    /\ ptMu = MainThread => mpc \in {"stop_body", "stop_unlock"}
CliTerminated ==
    /\ mpc \in {"all_failed", "queries"}
    /\ \A w \in cliFiles : Outcome(w) \in {"Done", "Failed"}
    /\ cliResultsMu = 0 /\ mu = 0 /\ ptMu = 0

\* C13: under fair scheduling every run of the CLI's ImportConcurrent with
\* the progress callbacks ends: every goroutine finishes as Done or Failed,
\* ImportConcurrent and tracker.Stop return, and no mutex stays held; the
\* three mutexes are always taken in the order resultsMu, mu, pt.mu.
C13_RunTerminates == []NestingOrder /\ <>[]CliTerminated

\* C13 witness: a run with progress bars and two inputs has ended, one
\* input Done and one Failed, after progress updates and a stopped render
\* loop
C13_Witness ==
    /\ CliTerminated
    /\ cliMode = "bars" /\ cliFiles = Workers
    /\ \E v, w \in Workers : Outcome(v) = "Done" /\ Outcome(w) = "Failed"
    /\ \E w \in Workers : wn[w] > 0
    /\ rpc = "exited"

\* the goroutine is between progressCallback's mu.Lock() and its return
InCallback(w) ==
    \/ wpc[w] \in {"cb_body", "cb_unlock"}
    \/ wpc[w] \in {"pt_lock", "pt_body", "pt_unlock"} /\ wev[w] \in Events

\* C14: no two goroutines are inside the body of the progress-event
\* callback at the same time, and whoever reads or writes the bars (an
\* import goroutine in a tracker method, the render loop, Stop's final
\* render) holds pt.mu while doing so.
C14_CallbackSerialized ==
    /\ \A v, w \in Workers : InCallback(v) /\ InCallback(w) => v = w
    /\ \A w \in Workers : wpc[w] = "pt_body" => ptMu = w
    /\ rpc = "render_body" => ptMu = RenderLoop
    /\ mpc = "stop_body" => ptMu = MainThread

\* C14 witness: one goroutine is updating a bar inside the callback while
\* the other waits for mu and the render loop waits for pt.mu
C14_Witness ==
    \E v, w \in Workers :
       /\ v # w
       /\ wpc[v] = "pt_body" /\ wev[v] \in Events
       /\ wpc[w] = "cb_lock"
       /\ rpc = "render_lock"

\* --------------------------------------------------------- one file alone
\* the source of input w has a header line, no malformed record, and a data
\* row with more or fewer fields than the header
RaggedSource(w) ==
    /\ WellFormed(w)
    /\ inputs[w].HasHeader
    /\ \E i \in 2..Len(FileRecs(w)) :
         Len(FileRecs(w)[i].fields) # Len(FileRecs(w)[1].fields)

\* C21 (as claimed): a file with a data row of another width than its header
\* does not fail for that: no import of such a file, none of whose records
\* is malformed, ends with a row read error, and when the import succeeds
\* every data row is counted and stored cut or padded to the header width.
C21_RaggedRowsImported ==
    \A w \in Active :
      RaggedSource(w) =>
        /\ ~(ret[w].kind = "err" /\ ret[w].err = "failed to read row")
        /\ ret[w].kind = "ok" =>
             /\ ret[w].RowCount = Len(DataRecs(w))
             /\ TableOf(w).rows =
                  [k \in 1..Len(DataRecs(w)) |->
                     PadRow(SourceHeaders(w), DataRecs(w)[k])]


\* the state of the per-file import of input w in the streaming importer
Phase(w) ==
    IF pc[w] \in {"idle", "s_open"} THEN "Init"
    ELSE IF pc[w] \in {"s_header", "ct_drop", "ct_create"} THEN "HeaderRead"
    ELSE IF pc[w] = "s_read" \/ ((InInsertBatch(w) \/ pc[w] = "ib_ret") /\ ibFrom[w] = "loop")
    THEN "Streaming"
    ELSE IF (InInsertBatch(w) \/ pc[w] = "ib_ret") /\ ibFrom[w] = "final" THEN "Finalizing"
    ELSE IF ret[w].kind = "ok" THEN "Done" ELSE "Failed"
\* Finalizing with an empty trailing batch has no step of its own
PhaseOrder ==
    {<<"Init", "HeaderRead">>, <<"HeaderRead", "Streaming">>,
     <<"Streaming", "Finalizing">>, <<"Streaming", "Done">>,
     <<"Finalizing", "Done">>} \cup
    {<<ph, "Failed">> : ph \in {"Init", "HeaderRead", "Streaming", "Finalizing"}}
\* nothing of the sink changes in this step
SinkUntouched == UNCHANGED <<tables, writer, txOpen, txPending, txLog, ctDone>>

\* C22: the per-file import moves Init -> HeaderRead -> Streaming ->
\* Finalizing -> Done or Failed, and as long as the header (or first row) of
\* the file has not been read no step changes the sink: when the open or the
\* header read fails the file fails with no DROP, CREATE or INSERT, and the
\* table of that name, if there was one, keeps its schema and rows.
C22_NoSinkBeforeHeader ==
    [][\A w \in Active :
         /\ pos[w] = 0 => SinkUntouched
         /\ (mode = "streaming" /\ Phase(w)' # Phase(w)) =>
              <<Phase(w), Phase(w)'>> \in PhaseOrder]_vars

\* C22 witness: the header read of a file failed and the import is over while
\* the table that existed before is as it was
C22_Witness ==
    \E w \in Active :
      /\ pc[w] = "done" /\ mode = "streaming"
      /\ ret[w].kind = "err" /\ ret[w].err = "failed to read header"
      /\ TableOf(w) = OldTable


\* the source of input w is a header line and nothing else
HeaderOnly(w) ==
    /\ WellFormed(w)
    /\ inputs[w].HasHeader
    /\ Len(FileRecs(w)) = 1

\* C23: the import of a file that holds a header line and no data row never
\* begins an insert transaction and fails only if the sink refuses the table
\* creation; when it returns its Result, RowCount is 0 and the table exists
\* with one column per header and no row.
C23_HeaderOnlyFile ==
    \A w \in Active :
      HeaderOnly(w) =>
        /\ txLog[w] = <<>> /\ ~txOpen[w]
        /\ ret[w].kind = "err" => ret[w].err = "failed to create table"
        /\ ret[w].kind = "ok" =>
             /\ ret[w].RowCount = 0
             /\ TableOf(w) = [exists |-> TRUE,
                              cols |-> SanitizeAll(FileRecs(w)[1].fields),
                              rows |-> <<>>]
             /\ Len(TableOf(w).cols) = Len(FileRecs(w)[1].fields)

\* C23 witness: the streaming import of a header-only file has returned its
\* Result over a table that existed before
C23_Witness ==
    \E w \in Active :
      /\ HeaderOnly(w) /\ mode = "streaming"
      /\ pc[w] = "done" /\ ret[w].kind = "ok"
      /\ retval.done /\ Len(retval.results) = 1 /\ retval.results[1].RowCount = 0


\* a step of the import of input w has returned an error
Erred(w) == ret[w].kind = "err" \/ ibErr[w] # Nil \/ parsed[w].Error # Nil
\* the outcomes recorded for the path of input w
ErrorsOf(w) == {k \in 1..Len(errs) : errs[k].path = inputs[w].FilePath}

\* C24: once a step of a file's import has returned an error the import
\* reads no further record, begins no transaction and writes nothing more to
\* the sink, the error stays (nothing is retried), and the file ends with
\* exactly one error and no Result; a file that ends with a Result had no
\* error.
C24_FailStop ==
    /\ [][\A w \in Active :
            Erred(w) =>
              /\ pos'[w] = pos[w]
              /\ UNCHANGED <<tables, txLog, ctDone>>
              /\ ~txOpen'[w] /\ txPending'[w] = <<>>
              /\ Erred(w)'
              /\ ret[w].kind = "err" => ret'[w] = ret[w]]_vars
    /\ [](\A w \in Active :
            /\ ret[w].kind = "ok" => ~Erred(w)
            /\ pc[w] = "done" =>
                 /\ ret[w].kind \in {"ok", "err"}
                 /\ mode # "import" =>
                      /\ Cardinality(ErrorsOf(w)) = (IF ret[w].kind = "err" THEN 1 ELSE 0)
                      /\ Len(results) = (IF ret[w].kind = "ok" THEN 1 ELSE 0)
            /\ (retval.done /\ ~retval.err.isNil) =>
                 /\ retval.results = <<>>
                 /\ Len(retval.err.parts) = 1)

\* C24 witness: a batch was committed, a later InsertBatch failed, and the
\* call returned the one error of the file
C24_Witness ==
    \E w \in Active :
      /\ ret[w].kind = "err" /\ ret[w].err = "failed to insert batch"
      /\ Len(TableOf(w).rows) >= BatchSize
      /\ retval.done /\ Len(retval.err.parts) = 1


\* C25: ImportConcurrent called with an empty input list returns nil results
\* and a nil error at once; no goroutine is started, no progress callback is
\* called, and no table, transaction or lock of the sink is touched.
C25_EmptyInputNoOp ==
    /\ [](N = 0 =>
            /\ \A w \in Workers :
                 /\ pc[w] = "idle" /\ events[w] = <<>>
                 /\ txLog[w] = <<>> /\ ~txOpen[w] /\ ~ctDone[w]
            /\ results = <<>> /\ errs = <<>> /\ writer = 0 /\ resultsMu = 0
            /\ mainpc \in {"call", "returned"}
            /\ mainpc = "returned" =>
                 /\ retval.done
                 /\ retval.results = <<>>
                 /\ retval.err.isNil)
    /\ [][N = 0 => UNCHANGED tables]_vars

\* C25 witness: the call with no input has returned over a database that
\* holds tables
C25_Witness ==
    /\ N = 0 /\ mode = "streaming"
    /\ mainpc = "returned" /\ retval.done
    /\ \A t \in TableNames : tables[t] = OldTable


\* a call of progressCallback, as opposed to the two row-progress callbacks
IsProgressEvent(e) == e.event \notin {"parse_progress", "write_progress"}
\* the calls of progressCallback made for input w, in order
ProgressEvents(w) == SelectSeq(events[w], IsProgressEvent)
\* the events of input w before its outcome is reported
OpeningEvents(w) ==
    IF pc[w] \in {"idle", "s_open"} THEN <<>>
    ELSE <<Ev("parse_start", 0)>> \o
         (IF ctDone[w] THEN <<Ev("write_start", 0)>> ELSE <<>>)
\* the events that report the outcome of input w
TerminalEvents(w) ==
    IF pc[w] # "done" THEN <<>>
    ELSE IF ret[w].kind = "ok"
    THEN <<Ev("parse_complete", ret[w].RowCount), Ev("write_complete", ret[w].RowCount)>>
    ELSE <<Ev("parse_error", 0)>>

\* C26: in the streaming ImportConcurrent the calls of progressCallback for a
\* file are parse_start, first and once; then write_start, once, if and only
\* if the table creation has succeeded; then, when the import of the file is
\* over, parse_complete and write_complete with Result.RowCount on success
\* or one parse_error on failure; and after that no callback is called for
\* the file any more.
C26_EventSequence ==
    /\ [](mode = "streaming" =>
            \A w \in Active :
              /\ ProgressEvents(w) = OpeningEvents(w) \o TerminalEvents(w)
              /\ pc[w] = "done" => ret[w].kind \in {"ok", "err"})
    /\ [][mode = "streaming" =>
            \A w \in Active : pc[w] = "done" => events'[w] = events[w]]_vars

\* C26 witness: a file with rows was imported and the call has returned
C26_Witness ==
    \E w \in Active :
      /\ mode = "streaming" /\ retval.done
      /\ ProgressEvents(w) = <<Ev("parse_start", 0), Ev("write_start", 0),
                               Ev("parse_complete", 2), Ev("write_complete", 2)>>


IsParseProgress(e) == e.event = "parse_progress"
IsWriteProgress(e) == e.event = "write_progress"
\* the values passed to parseProgressCallback / writeProgressCallback for
\* input w, in order
ParseProgress(w) ==
    LET s == SelectSeq(events[w], IsParseProgress) IN [k \in 1..Len(s) |-> s[k].rows]
WriteProgress(w) ==
    LET s == SelectSeq(events[w], IsWriteProgress) IN [k \in 1..Len(s) |-> s[k].rows]
\* the number of rows in the first k batches of bs
RECURSIVE RowsIn(_, _)
RowsIn(bs, k) == IF k = 0 THEN 0 ELSE RowsIn(bs, k - 1) + Len(bs[k])
\* the last value of a progress sequence, 0 when there is none
LastOf(s) == IF s = <<>> THEN 0 ELSE s[Len(s)]

\* C27: in the streaming import the parse progress values are the positive
\* multiples of ProgressInterval up to the number of rows read, one call each,
\* for any batch size; there is one write progress call per committed batch,
\* the k-th with the number of rows of the first k batches, which is the
\* number of rows of the file committed so far; the values increase strictly
\* and on success the last one is Result.RowCount.
C27_ProgressValues ==
    mode = "streaming" =>
      \A w \in Active :
        LET pp == ParseProgress(w)
            wp == WriteProgress(w)
        IN  /\ pp = [k \in 1..(rowCount[w] \div ProgressInterval) |-> k * ProgressInterval]
            /\ Len(wp) <= Len(txLog[w])
            /\ \A k \in 1..Len(wp) : wp[k] = RowsIn(txLog[w], k)
            /\ \A k \in 1..(Len(wp) - 1) : wp[k] < wp[k + 1]
            /\ ctDone[w] =>
                 IF pc[w] = "ib_ret" /\ ibErr[w] = Nil
                 THEN /\ Len(wp) = Len(txLog[w]) - 1
                      /\ Len(TableOf(w).rows) = RowsIn(txLog[w], Len(wp) + 1)
                 ELSE Len(TableOf(w).rows) = LastOf(wp)
            /\ ret[w].kind = "ok" =>
                 /\ LastOf(wp) = ret[w].RowCount
                 /\ Len(wp) = Len(txLog[w])

\* C27 witness: an import that passed two multiples of ProgressInterval and
\* committed four batches, the last one partial, has succeeded
C27_Witness ==
    \E w \in Active :
      /\ mode = "streaming" /\ pc[w] = "done" /\ ret[w].kind = "ok"
      /\ ParseProgress(w) = <<ProgressInterval, 2 * ProgressInterval>>
      /\ Len(WriteProgress(w)) >= 3
      /\ ret[w].RowCount % BatchSize # 0


\* ------------------------------------------------------------ two files
\* input v is still reading or parsing its file
StillReading(v) ==
    pc[v] \in {"s_open", "s_header", "s_read", "pf_open", "pf_header", "pf_read"}
\* input w has work left, holds no claim on the results mutex, and cannot
\* take a step
HeldBack(w) ==
    /\ pc[w] \notin {"idle", "done", "lock"}
    /\ ~ENABLED WorkerStep(w)

\* C28 (as claimed): in ImportConcurrent no worker waits on another worker:
\* while another file is still being read or parsed, a worker that has not
\* finished can always take its next step (towards its table creation and
\* its batch writes), so a slow file never holds back the writes of another.
C28_NoWorkerWaits ==
    \A w, v \in Active :
      (v # w /\ StillReading(v)) => ~HeldBack(w)


\* the inputs whose import has been recorded as a success
Succeeded == {w \in Active : pc[w] = "done" /\ ret[w].kind = "ok"}
\* f pairs the entries of rs one to one with the inputs of S, each entry
\* being the Result of its input
PairsUp(f, rs, S) ==
    /\ \A i, j \in DOMAIN f : f[i] = f[j] => i = j
    /\ \A w \in S : \E i \in DOMAIN f : f[i] = w
    /\ \A i \in DOMAIN f :
         /\ rs[i].TableName = inputs[f[i]].TableName
         /\ rs[i].RowCount = ret[f[i]].RowCount

\* C29: at every moment the results list of ImportConcurrent holds exactly
\* one Result for each input recorded as a success so far, in the order of
\* the appends under resultsMu, and what the call returns is that list: a
\* permutation of the Results of the successful inputs without duplicates,
\* in completion order, which need not be the input order.
C29_ResultsInCompletionOrder ==
    /\ [](mode # "import" =>
            /\ \E f \in [1..Len(results) -> Succeeded] : PairsUp(f, results, Succeeded)
            /\ retval.done => retval.results = results)
    /\ [][(mode # "import" /\ results' # results) =>
            \E w \in Active :
              /\ pc[w] = "append" /\ pc'[w] = "done"
              /\ results' = Append(results, [TableName |-> inputs[w].TableName,
                                             RowCount |-> ret[w].RowCount])]_vars

\* C29 witness: both inputs succeeded and the call returned the Result of the
\* second input before the Result of the first
C29_Witness ==
    /\ mode = "streaming" /\ N = 2 /\ retval.done
    /\ Len(retval.results) = 2
    /\ inputs[1].TableName # inputs[2].TableName
    /\ retval.results[1].TableName = inputs[2].TableName
    /\ retval.results[2].TableName = inputs[1].TableName


\* ------------------------------------------------------------ run's exit
\* C30: after the imports run returns the "all imports failed" error, and
\* then executes no query, exactly when there were input files and the
\* import of every one of them failed; with no input file, or with at least
\* one successful import (whatever the others did), it goes on to execute the
\* queries.
C30_AllImportsFailed ==
    /\ [](/\ mpc = "all_failed" <=>
               /\ mpc \in {"all_failed", "queries"}
               /\ cliFiles # {}
               /\ \A w \in cliFiles : Outcome(w) = "Failed"
          /\ mpc = "queries" <=>
               /\ mpc \in {"all_failed", "queries"}
               /\ cliFiles = {} \/ \E w \in cliFiles : Outcome(w) = "Done")
    /\ [][mpc = "all_failed" => mpc' = "all_failed"]_vars

\* C30 witness: one import failed, the other succeeded, and run has gone on
\* to the queries
C30_Witness ==
    /\ mpc = "queries"
    /\ \E v, w \in cliFiles : Outcome(v) = "Failed" /\ Outcome(w) = "Done"


\* ------------------------------------------------------- error events
IsErrorEvent(e) == e.event \in {"parse_error", "write_error"}
IsWriteStart(e) == e.event = "write_start"
\* the import of input w failed at opening, reading or tokenizing its file
ParseFailed(w) ==
    /\ ret[w].kind = "err"
    /\ ret[w].err \in {"failed to open file", "failed to read header",
                       "failed to read first row", "failed to read row"}
\* the import of input w failed at the table creation or at a batch insert
WriteFailed(w) ==
    /\ ret[w].kind = "err"
    /\ ret[w].err \in {"failed to create table", "failed to insert batch",
                       "failed to insert final batch"}

\* C33 (as claimed): a file whose import failed gets exactly one error event,
\* parse_error if and only if opening, reading or tokenizing the file failed
\* (and then no write_start), write_error if the table creation or a batch
\* insert failed; a file that succeeded gets none.
C33_ErrorEventMatchesPhase ==
    mode \in {"streaming", "staged"} =>
      \A w \in Active :
        pc[w] = "done" =>
          LET es == SelectSeq(events[w], IsErrorEvent) IN
            /\ ret[w].kind = "ok" => es = <<>>
            /\ ParseFailed(w) =>
                 /\ es = <<Ev("parse_error", 0)>>
                 /\ SelectSeq(events[w], IsWriteStart) = <<>>
            /\ WriteFailed(w) => es = <<Ev("write_error", 0)>>


\* the write goroutine of input w is inside WriteToDatabase
InWriteToDatabase(w) ==
    pc[w] \in {"ct_drop", "ct_create", "wtd_loop", "ib_begin", "ib_prepare",
               "ib_exec", "ib_commit", "ib_ret"}

\* C34 (as claimed): in the parse-then-write ImportConcurrent the files are
\* written to the database one after the other: no two inputs are inside
\* WriteToDatabase at the same time.
C34_WritesSequential ==
    mode = "staged" =>
      \A v, w \in Active :
        (InWriteToDatabase(v) /\ InWriteToDatabase(w)) => v = w


\* ------------------------------------------------------------ CreateTable
\* C35 (as claimed): CreateTable either returns nil and the table is a new
\* empty table with the given columns, or returns an error and the table
\* that existed before the call is still there with its schema and rows.
C35_CreateTableAllOrNothing ==
    Returned("CreateTable") =>
      IF dbRet = NoErr
      THEN dbTable = [exists |-> TRUE, cols |-> SanitizeAll(dbCall.columns), rows |-> <<>>]
      ELSE dbTable = dbPre.table

\* C35 (amended): CreateTable returns nil and the table is a new empty table
\* with the sanitized headers as columns, in header order; or it returns
\* "failed to drop table" and the table and its indexes are as before the
\* call; or it returns "failed to create table" and no table of that name
\* exists any more: the previous table, its rows and its indexes are gone.
C35_CreateTableDropsFirst ==
    Returned("CreateTable") =>
      CASE dbRet = NoErr ->
             /\ dbTable = [exists |-> TRUE, cols |-> SanitizeAll(dbCall.columns),
                           rows |-> <<>>]
             /\ \A ix \in dbIndexes : ix.table # TableT
        [] dbRet = SinkErr("failed to drop table") ->
             dbTable = dbPre.table /\ dbIndexes = dbPre.indexes
        [] dbRet = SinkErr("failed to create table") ->
             /\ dbTable = NoTable
             /\ \A ix \in dbIndexes : ix.table # TableT
        [] OTHER -> FALSE

\* C35 witness: CreateTable failed at its CREATE statement over a table that
\* held rows, and the table is gone
C35_Witness ==
    /\ Returned("CreateTable")
    /\ dbRet = SinkErr("failed to create table")
    /\ dbPre.table = OldT
    /\ dbTable = NoTable


\* ------------------------------------------------- the two importers
\* ParsedFile.Rows as ParseFile builds it: every record after the header
\* line, or every record of a file without one
ParseFileRows(recs, hasHeader) ==
    IF hasHeader THEN [i \in 1..(Len(recs) - 1) |-> recs[i + 1].fields]
    ELSE [i \in 1..Len(recs) |-> recs[i].fields]
\* the rows importFileStreaming appends to its batches: the records its
\* loop reads after the first reader.Read(), header line or not
StreamingRows(recs, hasHeader) == [i \in 1..(Len(recs) - 1) |-> recs[i + 1].fields]
\* the rows a table holds after rows were inserted under headers hdrs
StoredRows(hdrs, rows) == [k \in 1..Len(rows) |-> PadRow(hdrs, rows[k])]

\* C36 (as claimed): on the same file and header flag, Import (ParseFile then
\* WriteToDatabase) and importFileStreaming, when they succeed, return the
\* same RowCount and leave the same columns and the same rows in the table:
\* each stores the rows it collects, and the two collect the same rows.
C36_ImportersAgree ==
    \A w \in Active :
      ret[w].kind = "ok" =>
        LET recs == FileRecs(w)
            hasHeader == inputs[w].HasHeader
            mine == IF mode = "streaming" THEN StreamingRows(recs, hasHeader)
                    ELSE ParseFileRows(recs, hasHeader)
        IN  /\ ret[w].RowCount = Len(mine)
            /\ TableOf(w).cols = SanitizeAll(SourceHeaders(w))
            /\ TableOf(w).rows = StoredRows(SourceHeaders(w), mine)
            /\ StreamingRows(recs, hasHeader) = ParseFileRows(recs, hasHeader)


\* ------------------------------------------------------ progress tracker
\* tracker.Stop() has been called
StopCalled == mpc # "wait"
\* tracker.Stop() has returned
StopReturned == mpc \in {"returned", "all_failed", "queries"}

\* C37 (as claimed): with an enabled tracker every bar that was started is
\* done when tracker.Stop is called after ImportConcurrent has returned: the
\* bar of a file whose import failed was set done by the error event.
C37_BarsDoneAtStop ==
    (cliMode = "bars" /\ StopCalled) =>
      \A i \in 1..Len(bars) : bars[i].done

\* C38: the render loop goroutine is launched at most once, by the first
\* StartParse or StartWrite, whatever the number of files; when Stop has
\* returned on a tracker whose loop was started the loop goroutine has
\* exited (doneCh is closed) and nothing renders afterwards; and a Stop on a
\* tracker that is disabled or whose loop was never started returns at once,
\* without the final render and without waiting.
C38_RenderLoopLifecycle ==
    /\ [](/\ started <=> rpc # "none"
          /\ StopReturned =>
               /\ ptMu # MainThread
               /\ started => (rpc = "exited" /\ doneCh /\ stopCh)
               /\ ~started => (~stopCh /\ ~doneCh))
    /\ [][/\ (rpc = "none" /\ rpc' # "none") => (~started /\ started' /\ rpc' = "select")
          /\ rpc # "none" => (rpc' # "none" /\ started')
          /\ StopReturned => (rpc' = rpc /\ bars' = bars /\ ptMu' = ptMu)
          /\ (mpc = "stop" /\ mpc' # mpc) =>
               (mpc' = "returned" <=> ~(cliMode = "bars" /\ started))]_vars

\* C38 witness: two files started bars, the loop rendered, and Stop has
\* returned after the loop goroutine exited
C38_Witness ==
    /\ StopReturned /\ cliFiles = Workers
    /\ Len(bars) >= 2
    /\ rpc = "exited" /\ doneCh


\* C32: Config.Validate returns an error exactly when there are no input
\* files and no queries, or some input is stdin and there is more than one
\* query, or output files and queries are both given and their counts
\* differ; when it returns an error, run returns that error at once, having
\* opened no database, imported nothing, run no query and made no file;
\* when it returns nil, run goes on to database.Open.
C32_ValidateRejects ==
    LET noWork == Len(runCfg.inputs) = 0 /\ runCfg.queries = 0
        stdinManyQueries ==
            /\ \E i \in 1..Len(runCfg.inputs) : runCfg.inputs[i] = "stdin"
            /\ runCfg.queries > 1
        countsDiffer ==
            /\ Len(runCfg.outputs) > 0
            /\ runCfg.queries > 0
            /\ Len(runCfg.outputs) # runCfg.queries
    IN  /\ (Validate(runCfg) # Nil) <=> (noWork \/ stdinManyQueries \/ countsDiffer)
        /\ (runPc # "validate" /\ (noWork \/ stdinManyQueries \/ countsDiffer)) =>
             /\ runPc = "returned"
             /\ runErr # Nil
             /\ runErr = Validate(runCfg)
             /\ runDid = {}
             /\ runDb = NoDb
             /\ ~runFiles.temp
             /\ \A i \in 1..MaxQueries : qpc[i] = "none"
        /\ (runPc # "validate" /\ ~(noWork \/ stdinManyQueries \/ countsDiffer)) =>
             (runPc = "open" \/ "open" \in runDid)
C32_Witness ==
    /\ runPc = "returned"
    /\ \E i \in 1..Len(runCfg.inputs) : runCfg.inputs[i] = "stdin"
    /\ runCfg.queries > 1
    /\ Len(runCfg.outputs) = runCfg.queries
    /\ runErr = "multiple queries not supported with stdin input"


\* C31: a temporary database (empty DBPath) exists as a file for as long
\* as its handle is open, whatever run is doing with it, and once run has
\* returned, with nil or with any error, the file is gone unless the
\* operating system refused the os.Remove; a database opened with an
\* explicit path is never marked for cleanup and its file, once it exists,
\* is never removed.
C31_TempDatabaseLifecycle ==
    /\ [](/\ (runDb.open /\ runDb.path = "temp") => runFiles.temp
          /\ (runPc \in {"import", "queries", "seq", "seq_exec", "conc", "deferred"}) =>
               runDb.open
          /\ (runPc = "returned" /\ ~removeFailed) => (~runFiles.temp /\ ~runDb.open)
          /\ runDb.ShouldCleanup <=> (runDb.path = "temp"))
    /\ [][runFiles.user => runFiles'.user]_vars
C31_Witness ==
    /\ runPc = "returned"
    /\ runDb.path = "temp"
    /\ "query" \in runDid
    /\ runErr # Nil
    /\ ~removeFailed
    /\ ~runFiles.temp


Running == {i \in 1..MaxQueries : qpc[i] = "running"}
Failed == {i \in 1..MaxQueries : qpc[i] = "failed"}
====
